---- MODULE Spec2Model ----
(***************************************************************************)
(* Model of the DMN TCK runner (EngosSoftware/dmn-tck-rs).                  *)
(*                                                                         *)
(*  - the XML test-case model and its parser        (src/src/model.rs)     *)
(*  - the wire objects and their derived equality   (src/src/dto.rs)       *)
(*  - the runner loop and the report writer         (src/src/main.rs)      *)
(*                                                                         *)
(* Rust's Option<T> is a sequence of length at most one: None is <<>> and  *)
(* Some(x) is <<x>>.  Result<T, E> is a record [ok, v] or [ok, e].         *)
(***************************************************************************)
EXTENDS Integers, Sequences, FiniteSets, TLC

VARIABLES
    pdoc, pres, ppc,            \* parser: the document, parse_from_string's result
    vnode, vres, vpc,           \* parser: a node holding a value, parse_value_type's result
    ea, eb, eres, epc,          \* wire objects under comparison, the result of ==
    dva, dvb, din,              \* encoder: two values and an input node
    wa, wb, win, back, dpc,     \* encoder: their JSON, the object read back from wa
    files, stopOnFailure,       \* runner: sorted *.xml files, STOP_ON_FAILURE
    fileIdx, suite, pos,        \* runner: current file, its TestCases, loop position
    evals, report, errout,      \* runner: evaluation exchanges, report.csv, stderr
    successCount, failureCount, otherCount,
    pc, mainErr                 \* runner: control state, the error main returned

parserVars == <<pdoc, pres, ppc>>
valueVars  == <<vnode, vres, vpc>>
eqVars     == <<ea, eb, eres, epc>>
runVars    == <<files, stopOnFailure, fileIdx, suite, pos, evals, report, errout,
                successCount, failureCount, otherCount, pc, mainErr>>
dtoVars    == <<dva, dvb, din, wa, wb, win, back, dpc>>
vars       == <<parserVars, valueVars, eqVars, dtoVars, runVars>>

----------------------------------------------------------------------------
(* Option and Result *)

None == <<>>
Some(x) == <<x>>
IsSome(o) == o /= <<>>
IsNone(o) == o = <<>>
Unwrap(o) == o[1]

Ok(x) == [ok |-> TRUE, v |-> x]
Err(x) == [ok |-> FALSE, e |-> x]

----------------------------------------------------------------------------
(* Constants of model.rs *)

XSI == "http://www.w3.org/2001/XMLSchema-instance"

NODE_COMPONENT == "component"
NODE_COMPUTED == "computed"
NODE_DESCRIPTION == "description"
NODE_EXPECTED == "expected"
NODE_INPUT_NODE == "inputNode"
NODE_ITEM == "item"
NODE_LABELS == "labels"
NODE_LABEL == "label"
NODE_LIST == "list"
NODE_MODEL_NAME == "modelName"
NODE_RESULT_NODE == "resultNode"
NODE_TEST_CASE == "testCase"
NODE_TEST_CASES == "testCases"
NODE_VALUE == "value"

ATTR_CAST == "cast"
ATTR_ERROR_RESULT == "errorResult"
ATTR_ID == "id"
ATTR_INVOCABLE_NAME == "invocableName"
ATTR_NAME == "name"
ATTR_NIL == "nil"
ATTR_TYPE == "type"

(* RunnerError variants (errors.rs) *)
ParsingXMLFailed(reason) == [kind |-> "ParsingXMLFailed", arg |-> reason]
ValidatingXMLFailed(code) == [kind |-> "ValidatingXMLFailed", arg |-> code]
XmlExpectedMandatoryNode(name) == [kind |-> "XmlExpectedMandatoryNode", arg |-> name]
XmlExpectedMandatoryTextContent(name) == [kind |-> "XmlExpectedMandatoryTextContent", arg |-> name]
XmlExpectedMandatoryAttribute(name) == [kind |-> "XmlExpectedMandatoryAttribute", arg |-> name]

----------------------------------------------------------------------------
(* The document tree the parser walks (roxmltree::Node).  An element has a  *)
(* local tag name, attributes (namespace URI, local name, value) and child *)
(* nodes in document order; a text node has text and an empty tag name.    *)

Attr(ns, name, value) == [ns |-> ns, name |-> name, value |-> value]
Elem(tag, attrs, children) ==
    [kind |-> "elem", tag |-> tag, attrs |-> attrs, text |-> "", children |-> children]
Text(t) == [kind |-> "text", tag |-> "", attrs |-> {}, text |-> t, children |-> <<>>]

(* node.attribute(name) / node.attribute((ns, name)): the value of the     *)
(* attribute with exactly this namespace and local name.                   *)
NodeAttribute(node, ns, name) ==
    LET F(hit) == IF hit = {} THEN None ELSE Some((CHOOSE a \in hit : TRUE).value)
    IN F({a \in node.attrs : a.ns = ns /\ a.name = name})

(* The mutation of ChildrenNamed that searches all the descendants of the  *)
(* node, in document order (node.descendants()).                           *)
RECURSIVE DescendantsNamed(_, _, _)
DescendantsNamed(nodes, tag, found) ==
    IF nodes = <<>> THEN found
    ELSE DescendantsNamed(Head(nodes).children \o Tail(nodes), tag,
                          IF Head(nodes).tag = tag THEN Append(found, Head(nodes)) ELSE found)

ChildrenNamed_descendants(node, tag) == DescendantsNamed(node.children, tag, <<>>)

(* node.children().filter(|n| n.tag_name().name() == tag) *)
ChildrenNamed(node, tag) == SelectSeq(node.children, LAMBDA n : n.tag = tag)

(* node.children().find(|n| n.tag_name().name() == tag) *)
FindChild(node, tag) ==
    LET F(hits) == IF hits = <<>> THEN None ELSE Some(Head(hits))
    IN F(ChildrenNamed(node, tag))

(* node.text(): the text of an element is that of its first child, when    *)
(* that child is a text node.                                              *)
NodeText(node) ==
    IF node.kind = "text" THEN Some(node.text)
    ELSE IF node.children /= <<>> /\ Head(node.children).kind = "text"
         THEN Some(Head(node.children).text)
         ELSE None

----------------------------------------------------------------------------
(* XML utility functions of model.rs *)

(* The mutation of required_attribute that yields the empty string for a   *)
(* missing attribute.                                                      *)
required_attribute_lenient(node, attr_name) ==
    LET F(a) == IF IsSome(a) THEN Ok(Unwrap(a)) ELSE Ok("")
    IN F(NodeAttribute(node, "", attr_name))

required_attribute(node, attr_name) ==
    LET F(a) == IF IsSome(a) THEN Ok(Unwrap(a)) ELSE Err(XmlExpectedMandatoryAttribute(attr_name))
    IN F(NodeAttribute(node, "", attr_name))

optional_attribute(node, attr_name) == NodeAttribute(node, "", attr_name)

optional_xsi_type_attribute(node) == NodeAttribute(node, XSI, ATTR_TYPE)

(* The mutation of optional_nil_attribute that accepts an attribute named  *)
(* nil of any namespace.                                                   *)
optional_nil_attribute_anyns(node) ==
    \E a \in node.attrs : a.name = ATTR_NIL /\ a.value = "true"

optional_nil_attribute(node) ==
    LET F(a) == IF IsSome(a) THEN Unwrap(a) = "true" ELSE FALSE
    IN F(NodeAttribute(node, XSI, ATTR_NIL))

(* The mutation of required_content that yields the empty string for a     *)
(* node without text.                                                      *)
required_content_lenient(node) ==
    LET F(t) == IF IsSome(t) THEN Ok(Unwrap(t)) ELSE Ok("")
    IN F(NodeText(node))

required_content(node) ==
    LET F(t) == IF IsSome(t) THEN Ok(Unwrap(t)) ELSE Err(XmlExpectedMandatoryTextContent(node.tag))
    IN F(NodeText(node))

optional_content(node) == NodeText(node)

(* Result::ok() drops the error of required_content *)
optional_child_required_content(node, child_name) ==
    LET G(r) == Ok(IF r.ok THEN Some(r.v) ELSE None)
        F(c) == IF IsSome(c) THEN G(required_content(Unwrap(c))) ELSE Ok(None)
    IN F(FindChild(node, child_name))

----------------------------------------------------------------------------
(* Values (model.rs): enum ValueType { Simple(Value), Components(Vec<Component>), List(List) } *)

Simple(v) == [variant |-> "Simple", simple |-> v]
Components(c) == [variant |-> "Components", components |-> c]
List(l) == [variant |-> "List", list |-> l]

(* impl Default for List *)
ListDefault == [items |-> <<>>, nil |-> TRUE]

parse_simple_value(node) ==
    LET F(value_node) ==
            IF IsSome(value_node)
            THEN Ok(Some([typ |-> optional_xsi_type_attribute(Unwrap(value_node)),
                          text |-> optional_content(Unwrap(value_node)),
                          nil |-> optional_nil_attribute(Unwrap(value_node))]))
            ELSE Ok(None)
    IN F(FindChild(node, NODE_VALUE))

RECURSIVE parse_value_type(_)
RECURSIVE components_loop(_, _)
RECURSIVE items_loop(_, _)

(* the for loop of parse_value_components over the component children left *)
components_loop(nodes, items) ==
    IF nodes = <<>> THEN Ok(items)
    ELSE LET F(component_node, value) ==
                IF ~value.ok THEN value
                ELSE components_loop(Tail(nodes),
                        Append(items, [name |-> optional_attribute(component_node, ATTR_NAME),
                                       value |-> value.v,
                                       nil |-> optional_nil_attribute(component_node)]))
         IN F(Head(nodes), parse_value_type(Head(nodes)))

parse_value_components(node) ==
    LET F(r) == IF ~r.ok THEN r
                ELSE IF r.v /= <<>> THEN Ok(Some(r.v)) ELSE Ok(None)
    IN F(components_loop(ChildrenNamed(node, NODE_COMPONENT), <<>>))

(* The mutation of items_loop that keeps a position, held by a nil scalar, *)
(* for an item that resolves to no value.                                  *)
items_loop_placeholder(nodes, items) ==
    IF nodes = <<>> THEN Ok(items)
    ELSE LET F(value_type) ==
                IF ~value_type.ok THEN value_type
                ELSE IF IsSome(value_type.v)
                     THEN items_loop(Tail(nodes), Append(items, Unwrap(value_type.v)))
                     ELSE items_loop(Tail(nodes),
                                     Append(items, Simple([typ |-> None, text |-> None, nil |-> TRUE])))
         IN F(parse_value_type(Head(nodes)))

(* the for loop of parse_value_list over the item children left *)
items_loop(nodes, items) ==
    IF nodes = <<>> THEN Ok(items)
    ELSE LET F(value_type) ==
                IF ~value_type.ok THEN value_type
                ELSE IF IsSome(value_type.v)
                     THEN items_loop(Tail(nodes), Append(items, Unwrap(value_type.v)))
                     ELSE items_loop(Tail(nodes), items)
         IN F(parse_value_type(Head(nodes)))

(* The mutation of parse_value_list that parses the items of a list that   *)
(* carries the nil marker as it does for any other list.                   *)
parse_value_list_noshortcircuit(node) ==
    LET G(r) == IF ~r.ok THEN r
                ELSE IF r.v /= <<>> THEN Ok(Some([items |-> r.v, nil |-> FALSE]))
                     ELSE Ok(None)
        F(list_node) ==
            IF IsSome(list_node) /\ optional_nil_attribute(Unwrap(list_node))
               /\ ChildrenNamed(Unwrap(list_node), NODE_ITEM) = <<>>
            THEN Ok(Some(ListDefault))
            ELSE G(IF IsSome(list_node)
                   THEN items_loop(ChildrenNamed(Unwrap(list_node), NODE_ITEM), <<>>)
                   ELSE Ok(<<>>))
    IN F(FindChild(node, NODE_LIST))

(* The mutation of parse_value_list that returns a list also when no item  *)
(* has been collected.                                                     *)
parse_value_list_keepempty(node) ==
    LET G(r) == IF ~r.ok THEN r
                ELSE Ok(Some([items |-> r.v, nil |-> FALSE]))
        F(list_node) ==
            IF IsSome(list_node) /\ optional_nil_attribute(Unwrap(list_node))
            THEN Ok(Some(ListDefault))
            ELSE IF IsSome(list_node)
                 THEN G(items_loop(ChildrenNamed(Unwrap(list_node), NODE_ITEM), <<>>))
                 ELSE Ok(None)
    IN F(FindChild(node, NODE_LIST))

parse_value_list(node) ==
    LET G(r) == IF ~r.ok THEN r
                ELSE IF r.v /= <<>> THEN Ok(Some([items |-> r.v, nil |-> FALSE]))
                     ELSE Ok(None)
        F(list_node) ==
            IF IsSome(list_node) /\ optional_nil_attribute(Unwrap(list_node))
            THEN Ok(Some(ListDefault))
            ELSE G(IF IsSome(list_node)
                   THEN items_loop(ChildrenNamed(Unwrap(list_node), NODE_ITEM), <<>>)
                   ELSE Ok(<<>>))
    IN F(FindChild(node, NODE_LIST))

(* The mutation of parse_value_type that tries the list before the         *)
(* components.                                                             *)
parse_value_type_listfirst(node) ==
    LET H(c) == IF c.ok /\ IsSome(c.v) THEN Ok(Some(Components(Unwrap(c.v)))) ELSE Ok(None)
        G(l) == IF l.ok /\ IsSome(l.v) THEN Ok(Some(List(Unwrap(l.v))))
                ELSE H(parse_value_components(node))
        F(v) == IF v.ok /\ IsSome(v.v) THEN Ok(Some(Simple(Unwrap(v.v))))
                ELSE G(parse_value_list(node))
    IN F(parse_simple_value(node))

parse_value_type(node) ==
    LET H(l) == IF l.ok /\ IsSome(l.v) THEN Ok(Some(List(Unwrap(l.v)))) ELSE Ok(None)
        G(c) == IF c.ok /\ IsSome(c.v) THEN Ok(Some(Components(Unwrap(c.v))))
                ELSE H(parse_value_list(node))
        F(v) == IF v.ok /\ IsSome(v.v) THEN Ok(Some(Simple(Unwrap(v.v))))
                ELSE G(parse_value_components(node))
    IN F(parse_simple_value(node))

parse_child_value_type(node, child_name) ==
    LET F(child_node) ==
            IF IsSome(child_node) THEN parse_value_type(Unwrap(child_node)) ELSE Ok(None)
    IN F(FindChild(node, child_name))

----------------------------------------------------------------------------
(* Test cases (model.rs) *)

(* The mutation of parse_test_case_type that compares the discriminator    *)
(* without regard to letter case.                                          *)
parse_test_case_type_nocase(node) ==
    LET F(t) ==
            IF IsSome(t) /\ Unwrap(t) \in {"bkm", "BKM"} THEN "BusinessKnowledgeModel"
            ELSE IF IsSome(t) /\ Unwrap(t) \in {"decisionService", "decisionservice"}
                 THEN "DecisionService"
                 ELSE "Decision"
    IN F(optional_attribute(node, ATTR_TYPE))

parse_test_case_type(node) ==
    LET F(t) ==
            IF IsSome(t) /\ Unwrap(t) = "bkm" THEN "BusinessKnowledgeModel"
            ELSE IF IsSome(t) /\ Unwrap(t) = "decisionService" THEN "DecisionService"
                 ELSE "Decision"
    IN F(optional_attribute(node, ATTR_TYPE))

RECURSIVE input_nodes_loop(_, _)
input_nodes_loop(nodes, items) ==
    IF nodes = <<>> THEN Ok(items)
    ELSE LET F(name, value) ==
                IF ~name.ok THEN name
                ELSE IF ~value.ok THEN value
                     ELSE input_nodes_loop(Tail(nodes),
                             Append(items, [name |-> name.v, value |-> value.v]))
         IN F(required_attribute(Head(nodes), ATTR_NAME), parse_value_type(Head(nodes)))

parse_input_nodes(node) == input_nodes_loop(ChildrenNamed(node, NODE_INPUT_NODE), <<>>)

RECURSIVE result_nodes_loop(_, _)

(* The mutation of result_nodes_loop that leaves the computed child unread *)
result_nodes_loop_nocomputed(nodes, items) ==
    IF nodes = <<>> THEN Ok(items)
    ELSE LET F(result_node, name, er, expected) ==
                IF ~name.ok THEN name
                ELSE IF ~expected.ok THEN expected
                     ELSE result_nodes_loop(Tail(nodes),
                             Append(items,
                                 [name |-> name.v,
                                  error_result |-> IF IsSome(er) THEN Unwrap(er) = "true" ELSE FALSE,
                                  typ |-> optional_attribute(result_node, ATTR_TYPE),
                                  cast |-> optional_attribute(result_node, ATTR_CAST),
                                  expected |-> expected.v,
                                  computed |-> None]))
         IN F(Head(nodes),
              required_attribute(Head(nodes), ATTR_NAME),
              optional_attribute(Head(nodes), ATTR_ERROR_RESULT),
              parse_child_value_type(Head(nodes), NODE_EXPECTED))

result_nodes_loop(nodes, items) ==
    IF nodes = <<>> THEN Ok(items)
    ELSE LET F(result_node, name, er, expected, computed) ==
                IF ~name.ok THEN name
                ELSE IF ~expected.ok THEN expected
                     ELSE IF ~computed.ok THEN computed
                          ELSE result_nodes_loop(Tail(nodes),
                                  Append(items,
                                      [name |-> name.v,
                                       error_result |-> IF IsSome(er) THEN Unwrap(er) = "true" ELSE FALSE,
                                       typ |-> optional_attribute(result_node, ATTR_TYPE),
                                       cast |-> optional_attribute(result_node, ATTR_CAST),
                                       expected |-> expected.v,
                                       computed |-> computed.v]))
         IN F(Head(nodes),
              required_attribute(Head(nodes), ATTR_NAME),
              optional_attribute(Head(nodes), ATTR_ERROR_RESULT),
              parse_child_value_type(Head(nodes), NODE_EXPECTED),
              parse_child_value_type(Head(nodes), NODE_COMPUTED))

parse_result_nodes(node) == result_nodes_loop(ChildrenNamed(node, NODE_RESULT_NODE), <<>>)

RECURSIVE test_cases_loop(_, _)
test_cases_loop(nodes, items) ==
    IF nodes = <<>> THEN Ok(items)
    ELSE LET F(test_case_node, description, input_nodes, result_nodes) ==
                IF ~description.ok THEN description
                ELSE IF ~input_nodes.ok THEN input_nodes
                     ELSE IF ~result_nodes.ok THEN result_nodes
                          ELSE test_cases_loop(Tail(nodes),
                                  Append(items,
                                      [id |-> optional_attribute(test_case_node, ATTR_ID),
                                       name |-> optional_attribute(test_case_node, ATTR_NAME),
                                       typ |-> parse_test_case_type(test_case_node),
                                       description |-> description.v,
                                       invocable_name |->
                                           optional_attribute(test_case_node, ATTR_INVOCABLE_NAME),
                                       input_nodes |-> input_nodes.v,
                                       result_nodes |-> result_nodes.v]))
         IN F(Head(nodes),
              optional_child_required_content(Head(nodes), NODE_DESCRIPTION),
              parse_input_nodes(Head(nodes)),
              parse_result_nodes(Head(nodes)))

parse_test_cases(node) == test_cases_loop(ChildrenNamed(node, NODE_TEST_CASE), <<>>)

RECURSIVE labels_loop(_, _)
labels_loop(nodes, items) ==
    IF nodes = <<>> THEN Ok(items)
    ELSE LET F(c) == IF ~c.ok THEN c ELSE labels_loop(Tail(nodes), Append(items, c.v))
         IN F(required_content(Head(nodes)))

parse_labels(node) ==
    LET F(labels_node) ==
            IF IsSome(labels_node)
            THEN labels_loop(ChildrenNamed(Unwrap(labels_node), NODE_LABEL), <<>>)
            ELSE Ok(<<>>)
    IN F(FindChild(node, NODE_LABELS))

parse_root_node(node) ==
    LET F(model_name, labels, test_cases) ==
            IF ~model_name.ok THEN model_name
            ELSE IF ~labels.ok THEN labels
                 ELSE IF ~test_cases.ok THEN test_cases
                      ELSE Ok([model_name |-> model_name.v,
                               labels |-> labels.v,
                               test_cases |-> test_cases.v])
    IN F(optional_child_required_content(node, NODE_MODEL_NAME),
         parse_labels(node),
         parse_test_cases(node))

(* A fixture is the text of one *.xml file: either text roxmltree rejects  *)
(* (with a reason) or a document with a root element.                      *)
Malformed(reason) == [wellFormed |-> FALSE, reason |-> reason]
Document(root) == [wellFormed |-> TRUE, root |-> root]

(* The mutation of parse_from_string that skips the check of the root tag. *)
parse_from_string_anyroot(s) ==
    IF s.wellFormed THEN parse_root_node(s.root) ELSE Err(ParsingXMLFailed(s.reason))

(* The mutation of parse_from_string that reads a rejected text as an      *)
(* empty suite.                                                            *)
parse_from_string_lenient(s) ==
    IF s.wellFormed
    THEN IF s.root.tag /= NODE_TEST_CASES
         THEN Err(XmlExpectedMandatoryNode(NODE_TEST_CASES))
         ELSE parse_root_node(s.root)
    ELSE Ok([model_name |-> None, labels |-> <<>>, test_cases |-> <<>>])

parse_from_string(s) ==
    IF s.wellFormed
    THEN IF s.root.tag /= NODE_TEST_CASES
         THEN Err(XmlExpectedMandatoryNode(NODE_TEST_CASES))
         ELSE parse_root_node(s.root)
    ELSE Err(ParsingXMLFailed(s.reason))

----------------------------------------------------------------------------
(* Wire objects (dto.rs) *)

(* impl From<&Simple> for SimpleDto *)
(* The mutation of SimpleDtoFrom that leaves the type out *)
SimpleDtoFrom_notype(simple) == [typ |-> None, text |-> simple.text, nil |-> simple.nil]

SimpleDtoFrom(simple) == [typ |-> simple.typ, text |-> simple.text, nil |-> simple.nil]

(* impl Default for ValueDto *)
ValueDtoDefault == [simple |-> None, components |-> None, list |-> None]

RECURSIVE ValueDtoFrom(_)

(* impl From<&Component> for ComponentDto *)
ComponentDtoFrom(component) ==
    [name |-> component.name,
     value |-> IF IsSome(component.value) THEN Some(ValueDtoFrom(Unwrap(component.value))) ELSE None,
     nil |-> component.nil]

(* impl From<&List> for ListDto *)
ListDtoFrom(list) ==
    [items |-> [i \in DOMAIN list.items |-> ValueDtoFrom(list.items[i])], nil |-> list.nil]

(* The mutation of ValueDtoFrom that gives a list the key components too *)
ValueDtoFrom_twokeys(value) ==
    CASE value.variant = "Simple" ->
            [ValueDtoDefault EXCEPT !.simple = Some(SimpleDtoFrom(value.simple))]
      [] value.variant = "Components" ->
            [ValueDtoDefault EXCEPT !.components =
                Some([i \in DOMAIN value.components |-> ComponentDtoFrom(value.components[i])])]
      [] value.variant = "List" ->
            [ValueDtoDefault EXCEPT !.list = Some(ListDtoFrom(value.list)),
                                    !.components = Some(<<>>)]

(* impl From<&Value> for ValueDto *)
ValueDtoFrom(value) ==
    CASE value.variant = "Simple" ->
            [ValueDtoDefault EXCEPT !.simple = Some(SimpleDtoFrom(value.simple))]
      [] value.variant = "Components" ->
            [ValueDtoDefault EXCEPT !.components =
                Some([i \in DOMAIN value.components |-> ComponentDtoFrom(value.components[i])])]
      [] value.variant = "List" ->
            [ValueDtoDefault EXCEPT !.list = Some(ListDtoFrom(value.list))]

(* impl From<&InputNode> for InputNodeDto *)
InputNodeDtoFrom(input_node) ==
    [name |-> input_node.name,
     value |-> IF IsSome(input_node.value) THEN Some(ValueDtoFrom(Unwrap(input_node.value))) ELSE None]

(* #[derive(Serialize)]: the JSON object of a wire object.  A JSON object  *)
(* is a function of its keys; null is None, a string s is Some(s).  The    *)
(* keys simple, components and list are skipped when None                  *)
(* (skip_serializing_if = "Option::is_none"); the other Options are null.  *)
SimpleDtoToJson(simple) == [type |-> simple.typ, text |-> simple.text, isNil |-> simple.nil]

RECURSIVE ValueDtoToJson(_)

ComponentDtoToJson(component) ==
    [name |-> component.name,
     value |-> IF IsSome(component.value) THEN Some(ValueDtoToJson(Unwrap(component.value))) ELSE None,
     isNil |-> component.nil]

ListDtoToJson(list) ==
    [items |-> [i \in DOMAIN list.items |-> ValueDtoToJson(list.items[i])], isNil |-> list.nil]

ValueDtoToJson(value) ==
    [k \in {key \in {"simple", "components", "list"} : IsSome(value[key])} |->
        IF k = "simple" THEN SimpleDtoToJson(Unwrap(value.simple))
        ELSE IF k = "components"
             THEN [i \in DOMAIN Unwrap(value.components) |->
                     ComponentDtoToJson(Unwrap(value.components)[i])]
             ELSE ListDtoToJson(Unwrap(value.list))]

InputNodeDtoToJson(input_node) ==
    [name |-> input_node.name,
     value |-> IF IsSome(input_node.value) THEN Some(ValueDtoToJson(Unwrap(input_node.value))) ELSE None]

(* #[derive(Deserialize)]: the wire object of a JSON object; a missing key *)
(* of an Option is None.                                                   *)
SimpleDtoFromJson(json) == [typ |-> json.type, text |-> json.text, nil |-> json.isNil]

RECURSIVE ValueDtoFromJson(_)

ComponentDtoFromJson(json) ==
    [name |-> json.name,
     value |-> IF IsSome(json.value) THEN Some(ValueDtoFromJson(Unwrap(json.value))) ELSE None,
     nil |-> json.isNil]

ListDtoFromJson(json) ==
    [items |-> [i \in DOMAIN json.items |-> ValueDtoFromJson(json.items[i])], nil |-> json.isNil]

ValueDtoFromJson(json) ==
    [simple |-> IF "simple" \in DOMAIN json THEN Some(SimpleDtoFromJson(json.simple)) ELSE None,
     components |-> IF "components" \in DOMAIN json
                    THEN Some([i \in DOMAIN json.components |->
                                ComponentDtoFromJson(json.components[i])])
                    ELSE None,
     list |-> IF "list" \in DOMAIN json THEN Some(ListDtoFromJson(json.list)) ELSE None]

(* #[derive(PartialEq)] on SimpleDto, ComponentDto, ListDto and ValueDto:  *)
(* field by field, Option by variant, Vec by length and position.          *)
StringOptionEq(a, b) ==
    \/ IsNone(a) /\ IsNone(b)
    \/ IsSome(a) /\ IsSome(b) /\ Unwrap(a) = Unwrap(b)

(* The mutation of SimpleDto's equality that leaves the type tag out *)
SimpleDtoEq_notype(a, b) ==
    /\ StringOptionEq(a.text, b.text)
    /\ a.nil = b.nil

SimpleDtoEq(a, b) ==
    /\ StringOptionEq(a.typ, b.typ)
    /\ StringOptionEq(a.text, b.text)
    /\ a.nil = b.nil

RECURSIVE ValueDtoEq(_, _)

ValueDtoOptionEq(a, b) ==
    \/ IsNone(a) /\ IsNone(b)
    \/ IsSome(a) /\ IsSome(b) /\ ValueDtoEq(Unwrap(a), Unwrap(b))

ComponentDtoEq(a, b) ==
    /\ StringOptionEq(a.name, b.name)
    /\ ValueDtoOptionEq(a.value, b.value)
    /\ a.nil = b.nil

ListDtoEq(a, b) ==
    /\ Len(a.items) = Len(b.items)
    /\ \A i \in DOMAIN a.items : ValueDtoEq(a.items[i], b.items[i])
    /\ a.nil = b.nil

ValueDtoEq(a, b) ==
    /\ \/ IsNone(a.simple) /\ IsNone(b.simple)
       \/ IsSome(a.simple) /\ IsSome(b.simple) /\ SimpleDtoEq(Unwrap(a.simple), Unwrap(b.simple))
    /\ \/ IsNone(a.components) /\ IsNone(b.components)
       \/ /\ IsSome(a.components) /\ IsSome(b.components)
          /\ Len(Unwrap(a.components)) = Len(Unwrap(b.components))
          /\ \A i \in DOMAIN Unwrap(a.components) :
                ComponentDtoEq(Unwrap(a.components)[i], Unwrap(b.components)[i])
    /\ \/ IsNone(a.list) /\ IsNone(b.list)
       \/ IsSome(a.list) /\ IsSome(b.list) /\ ListDtoEq(Unwrap(a.list), Unwrap(b.list))

----------------------------------------------------------------------------
(* Bounds of the documents the parser is run on *)

MaxChildren == 2      \* children of a node holding a value
MaxNodes == 2         \* input nodes, and result nodes, of a test case
MaxTestCases == 2     \* test cases of a document

SeqsUpTo(S, n) == UNION {[1..k -> S] : k \in 0..n}

(* Elements a value is built from *)
ValDecimal10 == Elem(NODE_VALUE, {Attr(XSI, ATTR_TYPE, "xsd:decimal")}, <<Text("1.0")>>)
ValDecimal100 == Elem(NODE_VALUE, {Attr(XSI, ATTR_TYPE, "xsd:decimal")}, <<Text("1.00")>>)
ValString == Elem(NODE_VALUE, {Attr(XSI, ATTR_TYPE, "xsd:string")}, <<Text("1.0")>>)
ValNil == Elem(NODE_VALUE, {Attr(XSI, ATTR_NIL, "true")}, <<>>)
ValPlainAttrs ==
    Elem(NODE_VALUE, {Attr("", ATTR_NIL, "true"), Attr("", ATTR_TYPE, "xsd:string")}, <<Text("1.0")>>)
Item(kids) == Elem(NODE_ITEM, {}, kids)
ListEmpty == Elem(NODE_LIST, {}, <<>>)
ListNil == Elem(NODE_LIST, {Attr(XSI, ATTR_NIL, "true")}, <<Item(<<ValDecimal10>>)>>)
ListItems == Elem(NODE_LIST, {}, <<Item(<<ValDecimal10>>), Text(" "), Item(<<ValString>>)>>)
ListHollow == Elem(NODE_LIST, {}, <<Item(<<>>), Item(<<ValDecimal100>>)>>)
ListNilEmpty == Elem(NODE_LIST, {Attr(XSI, ATTR_NIL, "true")}, <<>>)
ListNilFalse == Elem(NODE_LIST, {Attr(XSI, ATTR_NIL, "false")}, <<Item(<<ValString>>)>>)
ListPlainNil == Elem(NODE_LIST, {Attr("", ATTR_NIL, "true")}, <<Item(<<ValNil>>)>>)
ListAllHollow == Elem(NODE_LIST, {}, <<Item(<<>>), Item(<<ListEmpty>>)>>)
ListNested == Elem(NODE_LIST, {}, <<Item(<<ListNil>>), Item(<<ListEmpty>>), Item(<<ListItems>>)>>)
CompA == Elem(NODE_COMPONENT, {Attr("", ATTR_NAME, "a")}, <<ValDecimal10>>)
CompB == Elem(NODE_COMPONENT, {Attr("", ATTR_NAME, "b"), Attr(XSI, ATTR_NIL, "true")}, <<>>)
CompMixed == Elem(NODE_COMPONENT, {}, <<ListItems, ValString>>)
CompPlainNil == Elem(NODE_COMPONENT, {Attr("", ATTR_NIL, "true")}, <<ValPlainAttrs>>)
ValOtherNs ==
    Elem(NODE_VALUE, {Attr("urn:other", ATTR_NIL, "true"), Attr("urn:other", ATTR_TYPE, "xsd:decimal")},
         <<Text("2")>>)
ValNilOne == Elem(NODE_VALUE, {Attr(XSI, ATTR_NIL, "1")}, <<>>)
Blank == Text(" ")
Wrapped == Elem("extension", {}, <<ValDecimal10, CompA, ListItems>>)

Anchors ==
    {ValDecimal10, ValDecimal100, ValString, ValNil, ValPlainAttrs,
     ListEmpty, ListNil, ListItems, ListHollow,
     ListNilEmpty, ListNilFalse, ListPlainNil, ListAllHollow, ListNested,
     CompA, CompB, CompMixed, Blank, Wrapped,
     CompPlainNil, ValOtherNs, ValNilOne}

(* The nodes parse_value_type is applied to *)
ValueNodes ==
    {Elem(NODE_INPUT_NODE, {Attr("", ATTR_NAME, "in")}, kids) : kids \in SeqsUpTo(Anchors, MaxChildren)}

(* Elements of a test-cases document *)
InputNodeElem(name, kids) ==
    Elem(NODE_INPUT_NODE, IF IsSome(name) THEN {Attr("", ATTR_NAME, Unwrap(name))} ELSE {}, kids)
ResultNodeElem(name, errorResult, kids) ==
    Elem(NODE_RESULT_NODE,
         (IF IsSome(name) THEN {Attr("", ATTR_NAME, Unwrap(name))} ELSE {})
         \cup (IF IsSome(errorResult) THEN {Attr("", ATTR_ERROR_RESULT, Unwrap(errorResult))} ELSE {}),
         kids)
Expected(kids) == Elem(NODE_EXPECTED, {}, kids)
Computed(kids) == Elem(NODE_COMPUTED, {}, kids)
TestCaseElem(id, kind, kids) ==
    Elem(NODE_TEST_CASE,
         {Attr("", ATTR_ID, id)}
         \cup (IF IsSome(kind) THEN {Attr("", ATTR_TYPE, Unwrap(kind))} ELSE {}),
         kids)
Label(kids) == Elem(NODE_LABEL, {}, kids)
Labels(kids) == Elem(NODE_LABELS, {}, kids)
ModelName(kids) == Elem(NODE_MODEL_NAME, {}, kids)
Root(tag, kids) == Elem(tag, {}, kids)

KindAttrs ==
    {None, Some("bkm"), Some("decisionService"), Some("unknown-future-kind"),
     Some("BKM"), Some("decisionservice"), Some("decision"), Some("")}

PInputNodes ==
    {InputNodeElem(Some("x"), <<ValDecimal10>>),
     InputNodeElem(Some("y"), <<>>),
     InputNodeElem(None, <<CompA, CompB>>)}
PResultNodes ==
    {ResultNodeElem(Some("r"), None, <<Expected(<<ValDecimal10>>)>>),
     ResultNodeElem(Some("e"), Some("true"), <<>>),
     ResultNodeElem(None, None, <<Expected(<<ListItems>>)>>),
     ResultNodeElem(Some("c"), Some("false"), <<Expected(<<ValString>>), Computed(<<ValString>>)>>)}

PTestCases ==
    {TestCaseElem("001", k, <<>>) : k \in KindAttrs}
    \cup {TestCaseElem("002", None, i \o r) :
            i \in SeqsUpTo(PInputNodes, MaxNodes), r \in SeqsUpTo(PResultNodes, MaxNodes)}
PFewTestCases ==
    {TestCaseElem("001", Some("bkm"), <<InputNodeElem(Some("x"), <<ValDecimal10>>)>>),
     TestCaseElem("002", Some("decisionService"),
                  <<Elem(NODE_DESCRIPTION, {}, <<Text("d")>>),
                    ResultNodeElem(Some("r"), None, <<Expected(<<CompA>>)>>)>>),
     TestCaseElem("003", Some("other"), <<Elem(NODE_DESCRIPTION, {}, <<>>)>>),
     TestCaseElem("004", None, <<ResultNodeElem(None, None, <<>>)>>),
     TestCaseElem("005", None,
                  <<ResultNodeElem(Some("r2"), None, <<Expected(<<CompMixed, CompB, CompA>>)>>),
                    InputNodeElem(Some("l"), <<ListHollow>>),
                    ResultNodeElem(Some("r1"), None, <<Expected(<<ListItems>>)>>),
                    InputNodeElem(Some("k"), <<ListNested>>)>>),
     TestCaseElem("006", None,
                  <<InputNodeElem(Some("m"), <<ListItems>>),
                    ResultNodeElem(Some("r3"), None, <<Expected(<<ListNil>>)>>)>>),
     TestCaseElem("007", None,
                  <<Elem("extension", {},
                         <<InputNodeElem(None, <<ValString>>),
                           ResultNodeElem(Some("deep"), None, <<Expected(<<ValString>>)>>),
                           TestCaseElem("008", None, <<InputNodeElem(Some("z"), <<ValNil>>)>>)>>),
                    InputNodeElem(Some("w"), <<Wrapped>>),
                    ResultNodeElem(Some("rw"), None,
                        <<Expected(<<Elem(NODE_COMPONENT, {Attr("", ATTR_NAME, "c")},
                                          <<Wrapped, Elem("extension", {}, <<ValNil>>)>>)>>),
                          Elem("extension", {}, <<Computed(<<ValDecimal10>>)>>)>>)>>)}
PHeaders ==
    {<<>>,
     <<ModelName(<<Text("m.dmn")>>), Labels(<<Label(<<Text("l1")>>), Label(<<Text("l2")>>)>>)>>,
     <<ModelName(<<>>)>>,
     <<Labels(<<Label(<<Text("l1")>>), Label(<<>>)>>)>>,
     <<Labels(<<Label(<<Text("l1")>>)>>), Labels(<<Label(<<>>)>>)>>,
     <<Labels(<<Label(<<Elem("b", {}, <<>>), Text("l3")>>)>>)>>,
     <<Elem("extension", {},
            <<ModelName(<<Text("deep.dmn")>>),
              TestCaseElem("009", None, <<InputNodeElem(None, <<>>)>>),
              Labels(<<Label(<<>>)>>)>>),
       Labels(<<Elem("extension", {}, <<Label(<<Text("l4")>>), Label(<<>>)>>)>>)>>}
RootTags == {NODE_TEST_CASES, "wrongRoot"}

MalformedFixtures == {Malformed("unexpected end of stream"), Malformed("unknown token")}

ParseFixtures ==
    MalformedFixtures
    \cup {Document(Root(t, h \o <<tc>>)) : t \in RootTags, h \in PHeaders, tc \in PTestCases}
    \cup {Document(Root(t, tcs)) : t \in RootTags, tcs \in SeqsUpTo(PFewTestCases, MaxTestCases)}

----------------------------------------------------------------------------
(* Specification SpecParse: parse_from_string applied to a document.       *)
(* Specification SpecValue: parse_value_type applied to a node.            *)

ParserIdle == pdoc = None /\ pres = None /\ ppc = "idle"
ValueIdle == vnode = None /\ vres = None /\ vpc = "idle"
EqIdle == ea = None /\ eb = None /\ eres = FALSE /\ epc = "idle"
DtoIdle ==
    /\ dva = None /\ dvb = None /\ din = None
    /\ wa = None /\ wb = None /\ win = None /\ back = None /\ dpc = "idle"
RunIdle ==
    /\ files = <<>> /\ stopOnFailure = FALSE /\ fileIdx = 1 /\ suite = None /\ pos = 1
    /\ evals = <<>> /\ report = <<>> /\ errout = <<>>
    /\ successCount = 0 /\ failureCount = 0 /\ otherCount = 0
    /\ pc = "idle" /\ mainErr = None

ParseFromString ==
    /\ ppc = "start"
    /\ pres' = parse_from_string(pdoc)
    /\ ppc' = "parsed"
    /\ UNCHANGED <<pdoc, valueVars, eqVars, dtoVars, runVars>>

InitParse ==
    /\ pdoc \in ParseFixtures /\ pres = None /\ ppc = "start"
    /\ ValueIdle /\ EqIdle /\ DtoIdle /\ RunIdle
NextParse == ParseFromString
SpecParse == InitParse /\ [][NextParse]_vars

ParseValueType ==
    /\ vpc = "start"
    /\ vres' = parse_value_type(vnode)
    /\ vpc' = "parsed"
    /\ UNCHANGED <<vnode, parserVars, eqVars, dtoVars, runVars>>

InitValue ==
    /\ vnode \in ValueNodes /\ vres = None /\ vpc = "start"
    /\ ParserIdle /\ EqIdle /\ DtoIdle /\ RunIdle
NextValue == ParseValueType
SpecValue == InitValue /\ [][NextValue]_vars

----------------------------------------------------------------------------
(* Properties of the parser *)

HasChild(node, tag) == \E i \in DOMAIN node.children : node.children[i].tag = tag
FirstChild(node, tag) ==
    node.children[CHOOSE i \in DOMAIN node.children :
                    /\ node.children[i].tag = tag
                    /\ \A j \in 1..(i - 1) : node.children[j].tag /= tag]
CountChildren(node, tag) == Cardinality({i \in DOMAIN node.children : node.children[i].tag = tag})

(* A descendant element with this tag that lacks the name attribute *)
RECURSIVE HasUnnamed(_, _)
HasUnnamed(node, tag) ==
    \E i \in DOMAIN node.children :
        \/ /\ node.children[i].tag = tag
           /\ ~ \E a \in node.children[i].attrs : a.ns = "" /\ a.name = ATTR_NAME
        \/ HasUnnamed(node.children[i], tag)

WrongRoot == pdoc.wellFormed /\ pdoc.root.tag /= "testCases"

(* C7: a well-formed document whose root element is not testCases parses   *)
(* to the error XmlExpectedMandatoryNode("testCases"), whatever the root   *)
(* holds: no label, test case, input node or result node below it has any  *)
(* effect on the result.                                                   *)
C7_WrongRootFails ==
    (ppc = "parsed" /\ WrongRoot)
        => pres = [ok |-> FALSE, e |-> [kind |-> "XmlExpectedMandatoryNode", arg |-> "testCases"]]

(* C7 witness: a wrong root over a result node without a name (which would *)
(* fail otherwise) and over a label without text has been parsed.          *)
C7_Witness ==
    /\ ppc = "parsed" /\ WrongRoot
    /\ HasUnnamed(pdoc.root, "resultNode")
    /\ ~pres.ok /\ pres.e.kind = "XmlExpectedMandatoryNode"

(* C8: text that is not a well-formed document parses to one               *)
(* ParsingXMLFailed error carrying the tokenizer's reason, never to a      *)
(* TestCases value.                                                        *)
C8_MalformedFails ==
    (ppc = "parsed" /\ ~pdoc.wellFormed)
        => /\ ~pres.ok
           /\ pres = [ok |-> FALSE, e |-> [kind |-> "ParsingXMLFailed", arg |-> pdoc.reason]]

(* C8 witness: a malformed text has been parsed *)
C8_Witness == ppc = "parsed" /\ ~pdoc.wellFormed /\ ~pres.ok

KindOfAttr(a) ==
    IF a = <<"bkm">> THEN "BusinessKnowledgeModel"
    ELSE IF a = <<"decisionService">> THEN "DecisionService"
    ELSE "Decision"

TypeAttrOf(node) ==
    IF \E a \in node.attrs : a.ns = "" /\ a.name = "type"
    THEN <<(CHOOSE a \in node.attrs : a.ns = "" /\ a.name = "type").value>>
    ELSE <<>>

(* C9: the kind of a test case is BusinessKnowledgeModel exactly for the   *)
(* discriminator "bkm", DecisionService exactly for "decisionService" and  *)
(* Decision for every other string and for no attribute; resolving the     *)
(* kind yields a kind for every testCase element, never an error.          *)
C9_KindResolution ==
    (ppc = "parsed" /\ pdoc.wellFormed /\ pdoc.root.tag = "testCases")
        => LET tcs == SelectSeq(pdoc.root.children, LAMBDA n : n.tag = "testCase")
           IN /\ \A i \in DOMAIN tcs :
                    /\ parse_test_case_type(tcs[i])
                          \in {"Decision", "BusinessKnowledgeModel", "DecisionService"}
                    /\ parse_test_case_type(tcs[i]) = KindOfAttr(TypeAttrOf(tcs[i]))
              /\ pres.ok =>
                    /\ Len(pres.v.test_cases) = Len(tcs)
                    /\ \A i \in DOMAIN tcs :
                          pres.v.test_cases[i].typ = KindOfAttr(TypeAttrOf(tcs[i]))
              /\ ~pres.ok => pres.e.kind /= "XmlExpectedMandatoryNode"

(* C9 witness: a test case with an unrecognized discriminator has parsed   *)
(* to the kind Decision.                                                   *)
C9_Witness ==
    /\ ppc = "parsed" /\ pres.ok
    /\ \E i \in DOMAIN pres.v.test_cases : pres.v.test_cases[i].typ = "Decision"
    /\ \E i \in DOMAIN pdoc.root.children :
          /\ pdoc.root.children[i].tag = "testCase"
          /\ TypeAttrOf(pdoc.root.children[i]) = <<"unknown-future-kind">>

(* C10: a node resolves to at most one shape, in the order Scalar,         *)
(* Composite, Sequence: with a value child it is the Scalar of its first   *)
(* value child; else with a component child it is the Composite of all its *)
(* component children; else it is a Sequence or nothing, and nothing when  *)
(* it has no list child either.                                            *)
C10_ShapePrecedence ==
    vpc = "parsed"
        => /\ vres.ok
           /\ Len(vres.v) <= 1
           /\ HasChild(vnode, "value")
                => /\ IsSome(vres.v)
                   /\ vres.v[1].variant = "Simple"
                   /\ vres.v[1] =
                        Simple([typ |-> optional_xsi_type_attribute(FirstChild(vnode, "value")),
                                text |-> optional_content(FirstChild(vnode, "value")),
                                nil |-> optional_nil_attribute(FirstChild(vnode, "value"))])
           /\ (~HasChild(vnode, "value") /\ HasChild(vnode, "component"))
                => /\ IsSome(vres.v)
                   /\ vres.v[1].variant = "Components"
                   /\ Len(vres.v[1].components) = CountChildren(vnode, "component")
           /\ (~HasChild(vnode, "value") /\ ~HasChild(vnode, "component"))
                => \/ IsNone(vres.v)
                   \/ /\ vres.v[1].variant = "List"
                      /\ HasChild(vnode, "list")

(* C10 witness: a node with a list child before a component child, and no  *)
(* value child, has resolved to a Composite; the list is left out.         *)
C10_Witness ==
    /\ vpc = "parsed"
    /\ ~HasChild(vnode, "value")
    /\ vnode.children = <<ListItems, CompA>>
    /\ vres.v[1].variant = "Components"

----------------------------------------------------------------------------
(* Specification SpecEq: the derived equality applied to two wire objects.  *)

MaxLen == 2           \* members of a composite, items of a list

Scalar(typ, text, nil) == Simple([typ |-> typ, text |-> text, nil |-> nil])
Member(name, value, nil) == [name |-> name, value |-> value, nil |-> nil]

EqScalars ==
    {Scalar(Some("xsd:decimal"), Some("1.0"), FALSE),
     Scalar(Some("xsd:decimal"), Some("1.00"), FALSE),
     Scalar(Some("xsd:string"), Some("1.0"), FALSE),
     Scalar(None, None, TRUE),
     Scalar(None, None, FALSE)}
EqMembers ==
    {Member(n, v, FALSE) :
        n \in {Some("a"), Some("b")},
        v \in {Some(Scalar(Some("xsd:decimal"), Some("1.0"), FALSE)),
               Some(Scalar(Some("xsd:decimal"), Some("2"), FALSE))}}
    \cup {Member(None, None, TRUE)}
EqItems ==
    {Scalar(Some("xsd:decimal"), Some("1.0"), FALSE),
     Scalar(Some("xsd:string"), Some("1.0"), FALSE),
     List(ListDefault)}

EqValues ==
    EqScalars
    \cup {Components(m) : m \in SeqsUpTo(EqMembers, MaxLen) \ {<<>>}}
    \cup {List([items |-> i, nil |-> FALSE]) : i \in SeqsUpTo(EqItems, MaxLen) \ {<<>>}}
    \cup {List(ListDefault),
          Components(<<Member(Some("a"),
                              Some(List([items |-> <<Scalar(None, Some("x"), FALSE)>>, nil |-> FALSE])),
                              FALSE)>>),
          Components(<<Member(Some("a"),
                              Some(List([items |-> <<Scalar(None, Some("y"), FALSE)>>, nil |-> FALSE])),
                              FALSE)>>)}

(* Wire objects that encode no value: no key, or more than one *)
OddDtos ==
    {ValueDtoDefault,
     [ValueDtoDefault EXCEPT
        !.simple = Some([typ |-> Some("xsd:decimal"), text |-> Some("1.0"), nil |-> FALSE]),
        !.list = Some([items |-> <<>>, nil |-> TRUE])]}

EqDtos == {ValueDtoFrom(v) : v \in EqValues} \cup OddDtos

Compare ==
    /\ epc = "start"
    /\ eres' = ValueDtoEq(ea, eb)
    /\ epc' = "compared"
    /\ UNCHANGED <<ea, eb, parserVars, valueVars, dtoVars, runVars>>

InitEq ==
    /\ ea \in EqDtos /\ eb \in EqDtos /\ eres = FALSE /\ epc = "start"
    /\ ParserIdle /\ ValueIdle /\ DtoIdle /\ RunIdle
NextEq == Compare
SpecEq == InitEq /\ [][NextEq]_vars

(* The wire form of the composite with members (a, 1.0), (b, 2) *)
DtoAB ==
    ValueDtoFrom(Components(<<Member(Some("a"), Some(Scalar(Some("xsd:decimal"), Some("1.0"), FALSE)), FALSE),
                              Member(Some("b"), Some(Scalar(Some("xsd:decimal"), Some("2"), FALSE)), FALSE)>>))
DtoBA ==
    ValueDtoFrom(Components(<<Member(Some("b"), Some(Scalar(Some("xsd:decimal"), Some("2"), FALSE)), FALSE),
                              Member(Some("a"), Some(Scalar(Some("xsd:decimal"), Some("1.0"), FALSE)), FALSE)>>))

BothScalar == IsSome(ea.simple) /\ IsSome(eb.simple)

(* C3: two values are equal exactly when they are the same value: the same *)
(* variant and, recursively, the same type tag, text and nil flag, the     *)
(* same members in the same order and the same items in the same order.    *)
(* Equality is reflexive; scalars with equal text and different type tags  *)
(* differ; "1.0" differs from "1.00"; a nil scalar differs from a non-nil  *)
(* scalar without text; members in another order make another composite.  *)
C3_StructuralEquality ==
    epc = "compared"
        => /\ eres <=> (ea = eb)
           /\ (ea = eb) => eres
           /\ (BothScalar /\ ea.simple[1].typ /= eb.simple[1].typ) => ~eres
           /\ (BothScalar /\ ea.simple[1].text /= eb.simple[1].text) => ~eres
           /\ (BothScalar /\ ea.simple[1].nil /= eb.simple[1].nil) => ~eres
           /\ (IsSome(ea.simple) /= IsSome(eb.simple)) => ~eres
           /\ (IsSome(ea.components) /= IsSome(eb.components)) => ~eres
           /\ (IsSome(ea.list) /= IsSome(eb.list)) => ~eres
           /\ (ea = DtoAB /\ eb = DtoBA) => ~eres

(* C3 witness: two decimal scalars with equal text and different type tags *)
(* have been compared and found different.                                 *)
C3_Witness ==
    /\ epc = "compared" /\ ~eres
    /\ BothScalar
    /\ ea.simple[1].text = <<"1.0">> /\ eb.simple[1].text = <<"1.0">>
    /\ ea.simple[1].typ = <<"xsd:decimal">> /\ eb.simple[1].typ = <<"xsd:string">>

----------------------------------------------------------------------------
(* The runner (main.rs): the loop of main over the sorted *.xml files,     *)
(* execute_tests and write_line.  The run starts where the definitions     *)
(* have been deployed and report.csv has been created.                     *)

MaxFiles == 2         \* *.xml files of a run

(* Result<ResultDto<ActualValueDto>> of one evaluation request *)
SendFailed(reason) == [kind |-> "SendFailed", reason |-> reason]
JsonFailed(reason) == [kind |-> "JsonFailed", reason |-> reason]
Reply(data, errors) == [kind |-> "Reply", data |-> data, errors |-> errors]

DtoDecimal10 == ValueDtoFrom(Scalar(Some("xsd:decimal"), Some("1.0"), FALSE))
DtoDecimal100 == ValueDtoFrom(Scalar(Some("xsd:decimal"), Some("1.00"), FALSE))
DtoString10 == ValueDtoFrom(Scalar(Some("xsd:string"), Some("1.0"), FALSE))

ActualDtos == {DtoDecimal10, DtoDecimal100, DtoString10}

Responses ==
    {SendFailed("connection refused"),
     JsonFailed("expected value at line 1 column 1"),
     Reply(None, Some(<<"e1", "e2">>)),
     Reply(None, None),
     Reply(Some([value |-> None]), None)}
    \cup {Reply(Some([value |-> Some(d)]), None) : d \in ActualDtos}

(* ResultDto::errors_as_string: the details joined with ", " *)
RECURSIVE JoinDetails(_)
JoinDetails(details) ==
    IF details = <<>> THEN ""
    ELSE IF Len(details) = 1 THEN details[1]
         ELSE details[1] \o ", " \o JoinDetails(Tail(details))

errors_as_string(result) ==
    IF IsSome(result.errors) THEN JoinDetails(Unwrap(result.errors)) ELSE ""

(* format!("{:?}", result) of a reply, as far as the runner prints it *)
DebugReply(result) ==
    IF IsNone(result.data) /\ IsNone(result.errors)
    THEN "ResultDto { data: None, errors: None }"
    ELSE "ResultDto { .. }"

(* The result nodes of a suite in the order of the two nested loops of     *)
(* execute_tests: <<test case, result node>> index pairs.                  *)
RECURSIVE WorkFrom(_, _, _)
WorkFrom(test_cases, tc, rn) ==
    IF tc > Len(test_cases) THEN <<>>
    ELSE IF rn > Len(test_cases[tc].result_nodes) THEN WorkFrom(test_cases, tc + 1, 1)
         ELSE <<<<tc, rn>>>> \o WorkFrom(test_cases, tc, rn + 1)

Work(test_cases) == WorkFrom(test_cases.test_cases, 1, 1)

(* EvaluateParams of the request for one result node *)
EvaluateParamsOf(test_cases, test_case, result_node) ==
    [tag |-> test_cases.model_name,
     artifact |-> IF IsSome(result_node.typ) THEN Unwrap(result_node.typ) ELSE test_case.typ,
     name |-> result_node.name,
     input |-> [i \in DOMAIN test_case.input_nodes |-> InputNodeDtoFrom(test_case.input_nodes[i])]]

Line(test_result, remarks, diag) == [result |-> test_result, remarks |-> remarks, diag |-> diag]

(* The mutation of the comparison that reports a success whenever both    *)
(* values are present.                                                     *)
CompareWithExpected_nocompare(result_node, actual_dto) ==
    IF IsSome(result_node.expected)
    THEN Line("SUCCESS", "", <<>>)
    ELSE Line("FAILURE", "no expected value", <<>>)

(* execute_tests, the branch of a reply with an actual value: it is        *)
(* compared with the wire form of the expected value, and both are printed *)
(* to stderr when they differ.                                             *)
CompareWithExpected(result_node, actual_dto) ==
    IF IsSome(result_node.expected)
    THEN LET expected_dto == ValueDtoFrom(Unwrap(result_node.expected))
         IN IF ValueDtoEq(actual_dto, expected_dto)
            THEN Line("SUCCESS", "", <<>>)
            ELSE Line("FAILURE", "actual <> expected",
                      <<[stream |-> "actual", value |-> actual_dto],
                        [stream |-> "expected", value |-> expected_dto]>>)
    ELSE Line("FAILURE", "no expected value", <<>>)

(* The mutation of the branch on the reply's data that takes a missing     *)
(* actual value for a missing expected value.                              *)
OutcomeOfData_mislabelled(result_node, data) ==
    IF IsSome(data.value)
    THEN CompareWithExpected(result_node, Unwrap(data.value))
    ELSE Line("FAILURE", "no expected value", <<>>)

(* The mutation of the branch on the reply's data that looks at the        *)
(* expected value before the actual one.                                   *)
OutcomeOfData_expectedfirst(result_node, data) ==
    IF IsNone(result_node.expected)
    THEN Line("FAILURE", "no expected value", <<>>)
    ELSE IF IsSome(data.value)
         THEN CompareWithExpected(result_node, Unwrap(data.value))
         ELSE Line("FAILURE", "no actual value", <<>>)

(* execute_tests, the branch of a reply with data *)
OutcomeOfData(result_node, data) ==
    IF IsSome(data.value)
    THEN CompareWithExpected(result_node, Unwrap(data.value))
    ELSE Line("FAILURE", "no actual value", <<>>)

(* The match of execute_tests on the outcome of the request: the result    *)
(* and the remarks handed to write_line, and what is printed to stderr     *)
(* before.                                                                 *)
Outcome(result_node, response) ==
    IF response.kind = "SendFailed" THEN Line("FAILURE", response.reason, <<>>)
    ELSE IF response.kind = "JsonFailed" THEN Line("FAILURE", response.reason, <<>>)
    ELSE IF IsSome(response.data)
         THEN OutcomeOfData(result_node, Unwrap(response.data))
         ELSE IF IsSome(response.errors)
              THEN Line("FAILURE", errors_as_string(response), <<>>)
              ELSE Line("FAILURE", DebugReply(response), <<>>)

(* str::to_lowercase on the results the runner writes *)
ToLowercase(str) ==
    CASE str = "SUCCESS" -> "success"
      [] str = "FAILURE" -> "failure"
      [] OTHER -> str

(* The mutation of write_line that exits on a failure whatever             *)
(* STOP_ON_FAILURE holds.                                                  *)
StopsAfter_always(test_result, stop) == ToLowercase(test_result) = "failure"

(* write_line: whether the process exits after this line *)
StopsAfter(test_result, stop) == ToLowercase(test_result) = "failure" /\ stop

(* The mutation of write_line that raises OTHER_COUNT for a failure too *)
write_line_failureasother(test_file_name, test_id, test_result, remarks, writeOk) ==
    IF ~writeOk
    THEN /\ pc' = "panicked"
         /\ UNCHANGED <<report, successCount, failureCount, otherCount>>
    ELSE /\ report' = Append(report, [file |-> test_file_name, test_id |-> test_id,
                                      result |-> test_result, remarks |-> remarks])
         /\ successCount' = successCount + (IF ToLowercase(test_result) = "success" THEN 1 ELSE 0)
         /\ failureCount' = failureCount + (IF ToLowercase(test_result) = "failure" THEN 1 ELSE 0)
         /\ otherCount' = otherCount
                + (IF ToLowercase(test_result) /= "success" THEN 1 ELSE 0)
         /\ pc' = IF StopsAfter(test_result, stopOnFailure) THEN "exited" ELSE "nodes"

(* write_line: the line is written to the report (writeln!(..).unwrap()    *)
(* panics when the writer fails), one of the three counters is raised, a   *)
(* failure is printed to stderr and ends the process under STOP_ON_FAILURE.*)
write_line(test_file_name, test_id, test_result, remarks, writeOk) ==
    IF ~writeOk
    THEN /\ pc' = "panicked"
         /\ UNCHANGED <<report, successCount, failureCount, otherCount>>
    ELSE /\ report' = Append(report, [file |-> test_file_name, test_id |-> test_id,
                                      result |-> test_result, remarks |-> remarks])
         /\ successCount' = successCount + (IF ToLowercase(test_result) = "success" THEN 1 ELSE 0)
         /\ failureCount' = failureCount + (IF ToLowercase(test_result) = "failure" THEN 1 ELSE 0)
         /\ otherCount' = otherCount
                + (IF ToLowercase(test_result) \notin {"success", "failure"} THEN 1 ELSE 0)
         /\ pc' = IF StopsAfter(test_result, stopOnFailure) THEN "exited" ELSE "nodes"

(* execute_tests up to its loops: validation and parsing of the file; an   *)
(* error of either is returned by execute_tests and then by main.          *)
ExecuteTestsBegin ==
    /\ pc = "files"
    /\ fileIdx <= Len(files)
    /\ \E env \in {"valid", "invalid", "unreadable"} :
          LET Returned(r) ==
                  IF r.ok
                  THEN /\ suite' = Some(r.v)
                       /\ pos' = 1
                       /\ pc' = "nodes"
                       /\ UNCHANGED mainErr
                  ELSE /\ mainErr' = Some(r.e)
                       /\ pc' = "failed"
                       /\ UNCHANGED <<suite, pos>>
          IN Returned(IF env = "invalid" THEN Err(ValidatingXMLFailed(1))
                      ELSE IF env = "unreadable"
                           THEN Err([kind |-> "ReadingFileFailed", arg |-> "permission denied"])
                           ELSE parse_from_string(files[fileIdx].content))
    /\ UNCHANGED <<files, stopOnFailure, fileIdx, evals, report, errout,
                   successCount, failureCount, otherCount>>
    /\ UNCHANGED <<parserVars, valueVars, eqVars, dtoVars>>

(* One pass of the inner loop of execute_tests: the request for the next   *)
(* result node, its outcome, and write_line.                               *)
ProcessResultNode ==
    /\ pc = "nodes"
    /\ pos <= Len(Work(Unwrap(suite)))
    /\ \E response \in Responses, writeOk \in BOOLEAN :
          LET test_cases == Unwrap(suite)
              at == Work(test_cases)[pos]
              test_case == test_cases.test_cases[at[1]]
              result_node == test_case.result_nodes[at[2]]
              test_id == IF IsSome(test_case.id) THEN Unwrap(test_case.id) ELSE ""
              line == Outcome(result_node, response)
          IN /\ evals' = Append(evals,
                    [file |-> fileIdx, at |-> at, result_node |-> result_node,
                     params |-> EvaluateParamsOf(test_cases, test_case, result_node),
                     response |-> response])
             /\ errout' = errout \o line.diag
                    \o (IF writeOk /\ ToLowercase(line.result) = "failure"
                        THEN <<[stream |-> "FAILURE", remarks |-> line.remarks]>> ELSE <<>>)
             /\ write_line(files[fileIdx].name, test_id, line.result, line.remarks, writeOk)
    /\ pos' = pos + 1
    /\ UNCHANGED <<files, stopOnFailure, fileIdx, suite, mainErr>>
    /\ UNCHANGED <<parserVars, valueVars, eqVars, dtoVars>>

(* execute_tests returns Ok(()) after the last result node *)
ExecuteTestsEnd ==
    /\ pc = "nodes"
    /\ pos > Len(Work(Unwrap(suite)))
    /\ fileIdx' = fileIdx + 1
    /\ suite' = None
    /\ pos' = 1
    /\ pc' = "files"
    /\ UNCHANGED <<files, stopOnFailure, evals, report, errout,
                   successCount, failureCount, otherCount, mainErr>>
    /\ UNCHANGED <<parserVars, valueVars, eqVars, dtoVars>>

(* main after the loop: the writer is flushed (a failure panics) and the   *)
(* totals are printed.                                                     *)
MainFinish ==
    /\ pc = "files"
    /\ fileIdx > Len(files)
    /\ \E flushOk \in BOOLEAN : pc' = IF flushOk THEN "done" ELSE "panicked"
    /\ UNCHANGED <<files, stopOnFailure, fileIdx, suite, pos, evals, report, errout,
                   successCount, failureCount, otherCount, mainErr>>
    /\ UNCHANGED <<parserVars, valueVars, eqVars, dtoVars>>

(* The files of a run *)
RResultNodes ==
    {ResultNodeElem(Some("r"), er, kids) :
        er \in {None, Some("true")},
        kids \in {<<>>, <<Expected(<<ValDecimal10>>)>>}}
RResultSeqs ==
    {<<>>} \cup {<<a>> : a \in RResultNodes} \cup {<<a, b>> : a, b \in RResultNodes}
RunFixtures ==
    {Malformed("unexpected end of stream"),
     Document(Root("wrongRoot", <<>>)),
     Document(Root(NODE_TEST_CASES,
        <<TestCaseElem("001", None, <<ResultNodeElem(None, None, <<Expected(<<ValDecimal10>>)>>)>>)>>)),
     Document(Root(NODE_TEST_CASES,
        <<Labels(<<Label(<<>>)>>),
          TestCaseElem("001", None, <<ResultNodeElem(Some("r"), None, <<Expected(<<ValDecimal10>>)>>)>>)>>)),
     Document(Root(NODE_TEST_CASES,
        <<TestCaseElem("001", Some("bkm"), <<ResultNodeElem(Some("r"), None, <<Expected(<<CompA, CompB>>)>>)>>),
          TestCaseElem("002", None, <<>>),
          TestCaseElem("003", None, <<ResultNodeElem(Some("s"), Some("false"), <<Expected(<<ValString>>)>>)>>)>>)),
     Document(Root(NODE_TEST_CASES,
        <<TestCaseElem("001", None,
            <<ResultNodeElem(Some("r"), None, <<Expected(<<ValDecimal10>>), Computed(<<ValString>>)>>),
              ResultNodeElem(Some("q"), None, <<Computed(<<>>), Expected(<<ValDecimal10>>)>>)>>)>>))}
    \cup {Document(Root(NODE_TEST_CASES,
             <<ModelName(<<Text("m.dmn")>>),
               TestCaseElem("001", None, <<InputNodeElem(Some("x"), <<ValString>>)>> \o rs)>>)) :
            rs \in RResultSeqs}
TailFixtures ==
    {Document(Root(NODE_TEST_CASES,
        <<TestCaseElem("009", None, <<ResultNodeElem(Some("t"), None, <<Expected(<<ValDecimal10>>)>>)>>)>>))}

(* The sorted list of files: the i-th path stands as i *)
Batches ==
    {[i \in 1..Len(c) |-> [name |-> i, content |-> c[i]]] :
        c \in {<<f>> \o t : f \in RunFixtures, t \in SeqsUpTo(TailFixtures, MaxFiles - 1)}}

Init ==
    /\ files \in Batches
    /\ stopOnFailure \in BOOLEAN
    /\ fileIdx = 1 /\ suite = None /\ pos = 1
    /\ evals = <<>> /\ report = <<>> /\ errout = <<>>
    /\ successCount = 0 /\ failureCount = 0 /\ otherCount = 0
    /\ pc = "files" /\ mainErr = None
    /\ ParserIdle /\ ValueIdle /\ EqIdle /\ DtoIdle

Next ==
    \/ ExecuteTestsBegin
    \/ ProcessResultNode
    \/ ExecuteTestsEnd
    \/ MainFinish

Spec == Init /\ [][Next]_vars

----------------------------------------------------------------------------
(* Properties of the verdict.  Line i of the report is the outcome of      *)
(* exchange i.  The runner has no verdict type: a verdict is a result and  *)
(* the remarks written with it.                                            *)

VerdictOf(line) ==
    CASE line.result = "SUCCESS" /\ line.remarks = "" -> "Match"
      [] line.result = "FAILURE" /\ line.remarks = "actual <> expected" -> "Mismatch"
      [] line.result = "FAILURE" /\ line.remarks = "no expected value" -> "MissingExpected"
      [] line.result = "FAILURE" /\ line.remarks = "no actual value" -> "MissingComputed"
      [] OTHER -> "EvaluationFailed"

HasData(response) == response.kind = "Reply" /\ IsSome(response.data)
HasValue(response) == HasData(response) /\ IsSome(response.data[1].value)
NoValue(response) == HasData(response) /\ IsNone(response.data[1].value)
ValueOf(response) == response.data[1].value[1]

(* C1: every result node whose error_result flag is true gets the verdict  *)
(* ExpectedErrorObserved, whatever the expected and computed values are.   *)
C1_ExpectedErrorObserved ==
    \A i \in DOMAIN report :
        evals[i].result_node.error_result => VerdictOf(report[i]) = "ExpectedErrorObserved"

(* C2: with error_result false and both values present the verdict is      *)
(* Match exactly when the computed value is the wire form of the expected  *)
(* value, and Mismatch otherwise, with both values printed.                *)
C2_MatchIffEqual ==
    \A i \in DOMAIN report :
        LET rn == evals[i].result_node
            rs == evals[i].response
        IN (~rn.error_result /\ IsSome(rn.expected) /\ HasValue(rs))
              => /\ VerdictOf(report[i]) = "Match" <=> ValueOf(rs) = ValueDtoFrom(rn.expected[1])
                 /\ VerdictOf(report[i]) = "Mismatch" <=> ValueOf(rs) /= ValueDtoFrom(rn.expected[1])
                 /\ VerdictOf(report[i]) = "Mismatch"
                      => \E j \in 1..(Len(errout) - 1) :
                            /\ errout[j] = [stream |-> "actual", value |-> ValueOf(rs)]
                            /\ errout[j + 1] =
                                 [stream |-> "expected", value |-> ValueDtoFrom(rn.expected[1])]

(* C2 witness: a decimal 1.0 was expected, a string 1.0 came back, and the *)
(* line is a Mismatch.                                                     *)
C2_Witness ==
    \E i \in DOMAIN report :
        /\ ~evals[i].result_node.error_result
        /\ evals[i].result_node.expected = <<Scalar(<<"xsd:decimal">>, <<"1.0">>, FALSE)>>
        /\ HasValue(evals[i].response)
        /\ ValueOf(evals[i].response) = DtoString10
        /\ VerdictOf(report[i]) = "Mismatch"

(* C4: with error_result false, an expected value, and a reply that        *)
(* carries no value, the verdict is MissingComputed.                       *)
C4_MissingComputed ==
    \A i \in DOMAIN report :
        LET rn == evals[i].result_node
            rs == evals[i].response
        IN (~rn.error_result /\ IsSome(rn.expected) /\ NoValue(rs))
              => /\ VerdictOf(report[i]) = "MissingComputed"
                 /\ report[i].result = "FAILURE"

(* C4 witness: such a line has been written *)
C4_Witness ==
    \E i \in DOMAIN report :
        /\ ~evals[i].result_node.error_result
        /\ IsSome(evals[i].result_node.expected)
        /\ NoValue(evals[i].response)
        /\ report[i].remarks = "no actual value"

(* C5 as claimed: with error_result false and no expected value the        *)
(* verdict is MissingExpected.                                             *)
C5_MissingExpected ==
    \A i \in DOMAIN report :
        LET rn == evals[i].result_node
        IN (~rn.error_result /\ IsNone(rn.expected))
              => VerdictOf(report[i]) = "MissingExpected"

(* C5 as amended: with error_result false and no expected value the        *)
(* verdict is MissingExpected when the reply carries a value, and          *)
(* MissingComputed when the reply carries data without a value.            *)
C5_MissingExpectedGivenValue ==
    \A i \in DOMAIN report :
        LET rn == evals[i].result_node
            rs == evals[i].response
        IN (~rn.error_result /\ IsNone(rn.expected))
              => /\ HasValue(rs) => VerdictOf(report[i]) = "MissingExpected"
                 /\ NoValue(rs) => VerdictOf(report[i]) = "MissingComputed"

(* C5 witness: a value came back for a result node without expected value  *)
C5_Witness ==
    \E i \in DOMAIN report :
        /\ ~evals[i].result_node.error_result
        /\ IsNone(evals[i].result_node.expected)
        /\ HasValue(evals[i].response)
        /\ report[i].remarks = "no expected value"

DefinedLines ==
    {l \in [result : {"SUCCESS", "FAILURE"},
            remarks : {"", "actual <> expected", "no expected value", "no actual value",
                       "connection refused", "expected value at line 1 column 1", "e1, e2",
                       "ResultDto { data: None, errors: None }"}] :
        l.result = "SUCCESS" <=> l.remarks = ""}

----------------------------------------------------------------------------
(* Properties of parsed lists *)

(* The node carries the attribute nil = "true" of the XMLSchema-instance   *)
(* namespace.                                                              *)
NilMarked(node) ==
    \E a \in node.attrs :
        /\ a.ns = "http://www.w3.org/2001/XMLSchema-instance"
        /\ a.name = "nil"
        /\ a.value = "true"

(* The node's shape is decided by its list child: it has neither a value   *)
(* child nor a component child.                                            *)
ListDecides(node) ==
    /\ ~HasChild(node, "value")
    /\ ~HasChild(node, "component")
    /\ HasChild(node, "list")

(* C11: a node whose shape is decided by a list child that carries the nil *)
(* marker parses to the list with no items and nil = TRUE, whether or not  *)
(* the list has item children.                                             *)
C11_NilListShortCircuit ==
    (vpc = "parsed" /\ ListDecides(vnode) /\ NilMarked(FirstChild(vnode, "list")))
        => vres = [ok |-> TRUE,
                   v |-> <<[variant |-> "List", list |-> [items |-> <<>>, nil |-> TRUE]]>>]

(* C11 witness: a nil-marked list that has an item child holding a value   *)
(* has parsed to the empty nil list.                                       *)
C11_Witness ==
    /\ vpc = "parsed" /\ ListDecides(vnode)
    /\ NilMarked(FirstChild(vnode, "list"))
    /\ HasChild(FirstChild(vnode, "list"), "item")
    /\ vres.ok /\ vres.v /= <<>> /\ vres.v[1].list.items = <<>> /\ vres.v[1].list.nil

(* The lists of a parsed value, at every depth *)
RECURSIVE ListsOf(_)
ListsOf(value_type) ==
    IF value_type.variant = "List"
    THEN {value_type.list}
         \cup UNION {ListsOf(value_type.list.items[i]) : i \in DOMAIN value_type.list.items}
    ELSE IF value_type.variant = "Components"
         THEN UNION {IF value_type.components[i].value = <<>> THEN {}
                     ELSE ListsOf(value_type.components[i].value[1]) :
                        i \in DOMAIN value_type.components}
         ELSE {}

(* C12: every list of a parsed value is nil with no items or not nil with  *)
(* at least one item; a node whose shape is decided by a list child that   *)
(* has no nil marker and no item child parses to no value.                 *)
C12_NoEmptyPlainList ==
    vpc = "parsed"
        => /\ vres.ok
           /\ \A v \in {vres.v[i] : i \in DOMAIN vres.v} :
                 \A l \in ListsOf(v) :
                    \/ l.nil /\ l.items = <<>>
                    \/ ~l.nil /\ l.items /= <<>>
           /\ (/\ ListDecides(vnode)
               /\ ~NilMarked(FirstChild(vnode, "list"))
               /\ ~HasChild(FirstChild(vnode, "list"), "item"))
                 => vres.v = <<>>

(* C12 witness: a list without the nil marker and without items has parsed *)
(* to no value.                                                            *)
C12_Witness ==
    /\ vpc = "parsed" /\ ListDecides(vnode)
    /\ FirstChild(vnode, "list") = ListEmpty
    /\ vres.ok /\ vres.v = <<>>

----------------------------------------------------------------------------
(* Properties of the nil marker and of the declared type *)

(* The declared type of a node: the value of its attribute type of the     *)
(* XMLSchema-instance namespace, if it has one.                            *)
DeclaredType(node) ==
    LET hit == {a \in node.attrs :
                    a.ns = "http://www.w3.org/2001/XMLSchema-instance" /\ a.name = "type"}
    IN IF hit = {} THEN <<>> ELSE <<(CHOOSE a \in hit : TRUE).value>>

(* Some element below the node, with one of the tags, carries the marker *)
RECURSIVE AnyMarked(_, _)
AnyMarked(node, tags) ==
    \E i \in DOMAIN node.children :
        \/ node.children[i].tag \in tags /\ NilMarked(node.children[i])
        \/ AnyMarked(node.children[i], tags)

(* Some scalar or composite member of the value, at any depth, is nil *)
RECURSIVE AnyNil(_)
AnyNil(value_type) ==
    IF value_type.variant = "Simple" THEN value_type.simple.nil
    ELSE IF value_type.variant = "Components"
         THEN \E i \in DOMAIN value_type.components :
                 \/ value_type.components[i].nil
                 \/ /\ value_type.components[i].value /= <<>>
                    /\ AnyNil(value_type.components[i].value[1])
         ELSE \E i \in DOMAIN value_type.list.items : AnyNil(value_type.list.items[i])

ComponentChildren(node) == SelectSeq(node.children, LAMBDA n : n.tag = "component")

(* C13: the nil flag of a parsed scalar, and of each member of a parsed    *)
(* composite, is TRUE exactly when its node carries nil = "true" of the    *)
(* XMLSchema-instance namespace, and the type of a scalar is the type      *)
(* attribute of that namespace only; at any depth a nil flag is set only   *)
(* if some node below carries the marker, and a list is nil only if its    *)
(* list node carries it.                                                   *)
C13_NilOnlyFromMarker ==
    (vpc = "parsed" /\ vres.ok /\ vres.v /= <<>>)
        => /\ vres.v[1].variant = "Simple"
                => /\ vres.v[1].simple.nil = NilMarked(FirstChild(vnode, "value"))
                   /\ vres.v[1].simple.typ = DeclaredType(FirstChild(vnode, "value"))
           /\ vres.v[1].variant = "Components"
                => \A i \in DOMAIN vres.v[1].components :
                      /\ vres.v[1].components[i].nil = NilMarked(ComponentChildren(vnode)[i])
                      /\ (/\ vres.v[1].components[i].value /= <<>>
                          /\ vres.v[1].components[i].value[1].variant = "Simple")
                            => /\ vres.v[1].components[i].value[1].simple.nil
                                    = NilMarked(FirstChild(ComponentChildren(vnode)[i], "value"))
                               /\ vres.v[1].components[i].value[1].simple.typ
                                    = DeclaredType(FirstChild(ComponentChildren(vnode)[i], "value"))
           /\ vres.v[1].variant = "List"
                => vres.v[1].list.nil = NilMarked(FirstChild(vnode, "list"))
           /\ AnyNil(vres.v[1]) => AnyMarked(vnode, {"value", "component"})
           /\ (\E l \in ListsOf(vres.v[1]) : l.nil) => AnyMarked(vnode, {"list"})

(* C13 witness: a composite member whose node, and whose value node, carry *)
(* nil = "true" and a type outside the namespace has parsed with both nil  *)
(* flags FALSE and no type.                                                *)
C13_Witness ==
    /\ vpc = "parsed" /\ vres.ok /\ vres.v /= <<>>
    /\ vnode.children[1] = CompPlainNil
    /\ vres.v[1].variant = "Components"
    /\ ~vres.v[1].components[1].nil
    /\ ~vres.v[1].components[1].value[1].simple.nil
    /\ vres.v[1].components[1].value[1].simple.typ = <<>>

----------------------------------------------------------------------------
(* Properties of the mandatory fields *)

RightRoot == pdoc.wellFormed /\ pdoc.root.tag = "testCases"

HasName(node) == \E a \in node.attrs : a.ns = "" /\ a.name = "name"

(* An input node or a result node of a test case of the document has no    *)
(* name attribute.                                                         *)
UnnamedNode(root) ==
    \E i \in DOMAIN root.children :
        /\ root.children[i].tag = "testCase"
        /\ \E j \in DOMAIN root.children[i].children :
              /\ root.children[i].children[j].tag \in {"inputNode", "resultNode"}
              /\ ~HasName(root.children[i].children[j])

HasTextChild(node) == \E i \in DOMAIN node.children : node.children[i].kind = "text"

(* A label of the labels section (the first labels element of the root)    *)
(* holds no text.                                                          *)
TextlessLabel(root) ==
    /\ HasChild(root, "labels")
    /\ \E i \in DOMAIN FirstChild(root, "labels").children :
          /\ FirstChild(root, "labels").children[i].tag = "label"
          /\ ~HasTextChild(FirstChild(root, "labels").children[i])

(* A label of the labels section does not begin with text: it is empty or  *)
(* its first child is an element.                                          *)
LabelWithoutLeadingText(root) ==
    /\ HasChild(root, "labels")
    /\ \E i \in DOMAIN FirstChild(root, "labels").children :
          /\ FirstChild(root, "labels").children[i].tag = "label"
          /\ \/ FirstChild(root, "labels").children[i].children = <<>>
             \/ FirstChild(root, "labels").children[i].children[1].kind /= "text"

MissingName == [ok |-> FALSE, e |-> [kind |-> "XmlExpectedMandatoryAttribute", arg |-> "name"]]
MissingLabelText == [ok |-> FALSE, e |-> [kind |-> "XmlExpectedMandatoryTextContent", arg |-> "label"]]

(* C14 as stated: a document with an input node or a result node that has  *)
(* no name attribute parses to the error XmlExpectedMandatoryAttribute.    *)
C14_MissingNameFails ==
    (ppc = "parsed" /\ RightRoot /\ UnnamedNode(pdoc.root)) => pres = MissingName

(* C14 amended: a document with an input node or a result node that has no *)
(* name attribute never parses to a TestCases value; the error is          *)
(* XmlExpectedMandatoryAttribute("name") unless a label of the labels      *)
(* section does not begin with text, which is reported first; and no other *)
(* document yields that error.                                             *)
C14_MissingNameFailsAfterLabels ==
    (ppc = "parsed" /\ RightRoot)
        => /\ UnnamedNode(pdoc.root) => ~pres.ok
           /\ (UnnamedNode(pdoc.root) /\ ~LabelWithoutLeadingText(pdoc.root))
                 => pres = MissingName
           /\ (UnnamedNode(pdoc.root) /\ LabelWithoutLeadingText(pdoc.root))
                 => pres = MissingLabelText
           /\ pres = MissingName => UnnamedNode(pdoc.root)

(* C14 witness: a valid test case followed by a test case whose result     *)
(* node has no name has parsed to the error.                               *)
C14_Witness ==
    /\ ppc = "parsed" /\ RightRoot
    /\ Len(pdoc.root.children) = 2
    /\ pdoc.root.children[1].tag = "testCase"
    /\ ~UnnamedNode([pdoc.root EXCEPT !.children = <<pdoc.root.children[1]>>])
    /\ UnnamedNode([pdoc.root EXCEPT !.children = <<pdoc.root.children[2]>>])
    /\ pres = MissingName

(* C15: a document with a label of the labels section that holds no text   *)
(* parses to the error XmlExpectedMandatoryTextContent("label"), whatever  *)
(* the test cases hold, never to a TestCases value.                        *)
C15_LabelWithoutTextFails ==
    (ppc = "parsed" /\ RightRoot /\ TextlessLabel(pdoc.root))
        => /\ ~pres.ok
           /\ pres = MissingLabelText

(* C15 witness: labels with a label without text, before a test case with  *)
(* an unnamed node, have parsed to the error naming the label.             *)
C15_Witness ==
    /\ ppc = "parsed" /\ RightRoot
    /\ TextlessLabel(pdoc.root)
    /\ UnnamedNode(pdoc.root)
    /\ pres = MissingLabelText

----------------------------------------------------------------------------
(* Properties of the order of the parsed entries *)

TagChildren(node, tag) == SelectSeq(node.children, LAMBDA n : n.tag = tag)

AttrOf(node, name) ==
    IF \E a \in node.attrs : a.ns = "" /\ a.name = name
    THEN <<(CHOOSE a \in node.attrs : a.ns = "" /\ a.name = name).value>>
    ELSE <<>>

(* The optional value parsed from a node has one entry for each source     *)
(* element, in the order of the source elements, at every depth.           *)
RECURSIVE Mirrors(_, _)
Mirrors(node, value) ==
    IF value = <<>> THEN TRUE
    ELSE IF value[1].variant = "Simple"
         THEN /\ HasChild(node, "value")
              /\ value[1].simple.text = NodeText(FirstChild(node, "value"))
         ELSE IF value[1].variant = "Components"
              THEN /\ Len(value[1].components) = Len(TagChildren(node, "component"))
                   /\ \A i \in DOMAIN value[1].components :
                         /\ value[1].components[i].name
                               = AttrOf(TagChildren(node, "component")[i], "name")
                         /\ Mirrors(TagChildren(node, "component")[i],
                                    value[1].components[i].value)
              ELSE /\ HasChild(node, "list")
                   /\ \/ value[1].list.nil
                      \/ /\ Len(value[1].list.items)
                               = Len(TagChildren(FirstChild(node, "list"), "item"))
                         /\ \A i \in DOMAIN value[1].list.items :
                               Mirrors(TagChildren(FirstChild(node, "list"), "item")[i],
                                       <<value[1].list.items[i]>>)

LabelTexts(root) ==
    IF HasChild(root, "labels")
    THEN [i \in DOMAIN TagChildren(FirstChild(root, "labels"), "label") |->
            TagChildren(FirstChild(root, "labels"), "label")[i].children[1].text]
    ELSE <<>>

(* C16: the labels, the test cases, the input nodes and the result nodes   *)
(* of each test case, the members of each composite and the items of each  *)
(* list of a parsed document are one for each source element and in the    *)
(* order of the source elements.                                           *)
C16_OrderAndMultiplicity ==
    (ppc = "parsed" /\ RightRoot /\ pres.ok)
        => /\ pres.v.labels = LabelTexts(pdoc.root)
           /\ Len(pres.v.test_cases) = Len(TagChildren(pdoc.root, "testCase"))
           /\ \A t \in DOMAIN pres.v.test_cases :
                 LET tc == pres.v.test_cases[t]
                     el == TagChildren(pdoc.root, "testCase")[t]
                 IN /\ tc.id = AttrOf(el, "id")
                    /\ Len(tc.input_nodes) = Len(TagChildren(el, "inputNode"))
                    /\ Len(tc.result_nodes) = Len(TagChildren(el, "resultNode"))
                    /\ \A i \in DOMAIN tc.input_nodes :
                          /\ <<tc.input_nodes[i].name>>
                                = AttrOf(TagChildren(el, "inputNode")[i], "name")
                          /\ Mirrors(TagChildren(el, "inputNode")[i], tc.input_nodes[i].value)
                    /\ \A i \in DOMAIN tc.result_nodes :
                          /\ <<tc.result_nodes[i].name>>
                                = AttrOf(TagChildren(el, "resultNode")[i], "name")
                          /\ HasChild(TagChildren(el, "resultNode")[i], "expected")
                                => Mirrors(FirstChild(TagChildren(el, "resultNode")[i], "expected"),
                                           tc.result_nodes[i].expected)

----------------------------------------------------------------------------
(* Properties of the scope of child discovery *)

(* The positions, in document order, of the children with the tag *)
PositionsNamed(node, tag) ==
    SelectSeq([i \in DOMAIN node.children |-> i], LAMBDA i : node.children[i].tag = tag)

(* The nodes parse_value_type is called on when it is called on the node   *)
(* at the path, in the order of the calls; a node is named by the path of  *)
(* child positions that leads to it.                                       *)
RECURSIVE value_anchors(_, _)
RECURSIVE anchors_loop(_, _, _)
anchors_loop(node, path, positions) ==
    IF positions = <<>> THEN <<>>
    ELSE value_anchors(node.children[Head(positions)], Append(path, Head(positions)))
         \o anchors_loop(node, path, Tail(positions))

value_anchors(node, path) ==
    <<path>> \o
    (IF PositionsNamed(node, NODE_VALUE) /= <<>> THEN <<>>
     ELSE IF PositionsNamed(node, NODE_COMPONENT) /= <<>>
          THEN anchors_loop(node, path, PositionsNamed(node, NODE_COMPONENT))
          ELSE IF PositionsNamed(node, NODE_LIST) = <<>> THEN <<>>
               ELSE LET at == Head(PositionsNamed(node, NODE_LIST))
                    IN IF optional_nil_attribute(node.children[at]) THEN <<>>
                       ELSE anchors_loop(node.children[at], Append(path, at),
                                         PositionsNamed(node.children[at], NODE_ITEM)))

(* parse_child_value_type: the calls made for the first child with the tag *)
child_anchors(node, path, child_name) ==
    IF PositionsNamed(node, child_name) = <<>> THEN <<>>
    ELSE value_anchors(node.children[Head(PositionsNamed(node, child_name))],
                       Append(path, Head(PositionsNamed(node, child_name))))

RECURSIVE result_anchors_loop(_, _, _)
result_anchors_loop(node, path, positions) ==
    IF positions = <<>> THEN <<>>
    ELSE child_anchors(node.children[Head(positions)], Append(path, Head(positions)), NODE_EXPECTED)
         \o child_anchors(node.children[Head(positions)], Append(path, Head(positions)), NODE_COMPUTED)
         \o result_anchors_loop(node, path, Tail(positions))

(* parse_test_cases: the calls made for the test cases at the positions *)
RECURSIVE test_case_anchors(_, _)
test_case_anchors(root, positions) ==
    IF positions = <<>> THEN <<>>
    ELSE anchors_loop(root.children[Head(positions)], <<Head(positions)>>,
                      PositionsNamed(root.children[Head(positions)], NODE_INPUT_NODE))
         \o result_anchors_loop(root.children[Head(positions)], <<Head(positions)>>,
                                PositionsNamed(root.children[Head(positions)], NODE_RESULT_NODE))
         \o test_case_anchors(root, Tail(positions))

document_anchors(root) == test_case_anchors(root, PositionsNamed(root, NODE_TEST_CASE))

(* The node without what its children hold *)
Emptied(node) == [node EXCEPT !.children = <<>>]
EmptiedBelow(node) == [node EXCEPT !.children = [i \in DOMAIN node.children |-> Emptied(node.children[i])]]

(* A node that holds a value, without everything that is not reached from  *)
(* it by steps along value, component, list and item children.             *)
RECURSIVE PruneHolder(_)
PruneHolder(node) ==
    [node EXCEPT !.children =
        [i \in DOMAIN node.children |->
            IF node.children[i].tag = "value" THEN EmptiedBelow(node.children[i])
            ELSE IF node.children[i].tag = "component" THEN PruneHolder(node.children[i])
            ELSE IF node.children[i].tag = "list"
                 THEN [node.children[i] EXCEPT !.children =
                        [j \in DOMAIN node.children[i].children |->
                            IF node.children[i].children[j].tag = "item"
                            THEN PruneHolder(node.children[i].children[j])
                            ELSE Emptied(node.children[i].children[j])]]
                 ELSE Emptied(node.children[i])]]

PruneResultNode(node) ==
    [node EXCEPT !.children =
        [i \in DOMAIN node.children |->
            IF node.children[i].tag \in {"expected", "computed"}
            THEN PruneHolder(node.children[i])
            ELSE Emptied(node.children[i])]]

PruneTestCase(node) ==
    [node EXCEPT !.children =
        [i \in DOMAIN node.children |->
            IF node.children[i].tag = "inputNode" THEN PruneHolder(node.children[i])
            ELSE IF node.children[i].tag = "resultNode" THEN PruneResultNode(node.children[i])
            ELSE IF node.children[i].tag = "description" THEN EmptiedBelow(node.children[i])
            ELSE Emptied(node.children[i])]]

PruneLabels(node) ==
    [node EXCEPT !.children =
        [i \in DOMAIN node.children |->
            IF node.children[i].tag = "label" THEN EmptiedBelow(node.children[i])
            ELSE Emptied(node.children[i])]]

(* The document without every element that is not a direct child of the    *)
(* node it would be an entry of.                                           *)
Pruned(doc) ==
    [doc EXCEPT !.root.children =
        [i \in DOMAIN doc.root.children |->
            IF doc.root.children[i].tag = "testCase" THEN PruneTestCase(doc.root.children[i])
            ELSE IF doc.root.children[i].tag = "labels" THEN PruneLabels(doc.root.children[i])
            ELSE IF doc.root.children[i].tag = "modelName" THEN EmptiedBelow(doc.root.children[i])
            ELSE Emptied(doc.root.children[i])]]

NoDuplicates(seq) == \A i, j \in DOMAIN seq : i /= j => seq[i] /= seq[j]

(* C17: the result of parsing a document is the result of parsing it with  *)
(* every element removed that is nested deeper than a direct child of the  *)
(* node being parsed; the entries of the root and of each test case are as *)
(* many as their direct children with the tag; and parse_value_type is     *)
(* called at most once on a node.                                          *)
C17_DirectChildrenOnly ==
    (ppc = "parsed" /\ pdoc.wellFormed)
        => /\ pres = parse_from_string(Pruned(pdoc))
           /\ (RightRoot /\ pres.ok)
                 => /\ Len(pres.v.test_cases) = Len(TagChildren(pdoc.root, "testCase"))
                    /\ \A t \in DOMAIN pres.v.test_cases :
                          /\ Len(pres.v.test_cases[t].input_nodes)
                                = Len(TagChildren(TagChildren(pdoc.root, "testCase")[t], "inputNode"))
                          /\ Len(pres.v.test_cases[t].result_nodes)
                                = Len(TagChildren(TagChildren(pdoc.root, "testCase")[t], "resultNode"))
           /\ NoDuplicates(document_anchors(pdoc.root))

(* C17 witness: a document with an input node without name nested below an *)
(* extension element of a test case, and a value nested below an extension *)
(* element of an input node, has parsed to a TestCases value with one      *)
(* input node that has no value.                                           *)
C17_Witness ==
    /\ ppc = "parsed" /\ RightRoot /\ pres.ok
    /\ Pruned(pdoc) /= pdoc
    /\ HasUnnamed(pdoc.root, "inputNode")
    /\ \E t \in DOMAIN pres.v.test_cases :
          /\ Len(pres.v.test_cases[t].input_nodes) = 1
          /\ pres.v.test_cases[t].input_nodes[1].name = "w"
          /\ pres.v.test_cases[t].input_nodes[1].value = <<>>
    /\ Len(document_anchors(pdoc.root)) >= 3

----------------------------------------------------------------------------
(* Specification SpecDto: two values and an input node are encoded to      *)
(* their JSON, and the JSON of the first value is read back.               *)

DtoValues ==
    EqValues
    \cup {List([items |-> <<>>, nil |-> FALSE]),
          List([items |-> <<Scalar(None, Some("x"), FALSE)>>, nil |-> TRUE]),
          Components(<<>>),
          Scalar(Some("xsd:string"), Some(""), FALSE),
          Scalar(Some(""), None, FALSE)}

Encode ==
    /\ dpc = "start"
    /\ wa' = Some(ValueDtoToJson(ValueDtoFrom(dva)))
    /\ wb' = Some(ValueDtoToJson(ValueDtoFrom(dvb)))
    /\ win' = Some(InputNodeDtoToJson(InputNodeDtoFrom(din)))
    /\ dpc' = "encoded"
    /\ UNCHANGED <<dva, dvb, din, back, parserVars, valueVars, eqVars, runVars>>

ReadBack ==
    /\ dpc = "encoded"
    /\ back' = Some(ValueDtoFromJson(Unwrap(wa)))
    /\ dpc' = "read"
    /\ UNCHANGED <<dva, dvb, din, wa, wb, win, parserVars, valueVars, eqVars, runVars>>

InitDto ==
    /\ dva \in DtoValues /\ dvb \in DtoValues
    /\ din \in {[name |-> "in", value |-> None], [name |-> "in", value |-> Some(dva)]}
    /\ wa = None /\ wb = None /\ win = None /\ back = None /\ dpc = "start"
    /\ ParserIdle /\ ValueIdle /\ EqIdle /\ RunIdle
NextDto == Encode \/ ReadBack
SpecDto == InitDto /\ [][NextDto]_vars

(* The value a wire object stands for: the variant of its key, with the    *)
(* fields, members and items it carries.                                   *)
RECURSIVE ValueOfDto(_)
ValueOfDto(dto) ==
    IF dto.simple /= <<>>
    THEN [variant |-> "Simple",
          simple |-> [typ |-> dto.simple[1].typ, text |-> dto.simple[1].text,
                      nil |-> dto.simple[1].nil]]
    ELSE IF dto.components /= <<>>
         THEN [variant |-> "Components",
               components |->
                  [i \in DOMAIN dto.components[1] |->
                      [name |-> dto.components[1][i].name,
                       value |-> IF dto.components[1][i].value = <<>> THEN <<>>
                                 ELSE <<ValueOfDto(dto.components[1][i].value[1])>>,
                       nil |-> dto.components[1][i].nil]]]
         ELSE [variant |-> "List",
               list |-> [items |-> [i \in DOMAIN dto.list[1].items |->
                                       ValueOfDto(dto.list[1].items[i])],
                         nil |-> dto.list[1].nil]]

(* C18: the wire object read back from the JSON of a value is the wire     *)
(* object of the value, the value it stands for is the value encoded, and  *)
(* two different values have different wire objects and different JSON.    *)
C18_RoundTrip ==
    dpc = "read"
        => /\ back = <<ValueDtoFrom(dva)>>
           /\ ValueOfDto(back[1]) = dva
           /\ (wa = wb) => (dva = dvb)
           /\ (ValueDtoFrom(dva) = ValueDtoFrom(dvb)) => (dva = dvb)

(* C18 witness: two composites that differ only in the text of a scalar in *)
(* a list of a member have been encoded to different JSON, and the first   *)
(* has been read back.                                                     *)
C18_Witness ==
    /\ dpc = "read"
    /\ dva.variant = "Components" /\ dvb.variant = "Components"
    /\ dva.components /= <<>> /\ dvb.components /= <<>>
    /\ dva.components[1].value /= <<>> /\ dva.components[1].value[1].variant = "List"
    /\ dvb.components[1].value /= <<>> /\ dvb.components[1].value[1].variant = "List"
    /\ dva /= dvb
    /\ wa /= wb
    /\ ValueOfDto(back[1]) = dva

(* The JSON object has the one key of the value's variant and carries the  *)
(* value's fields, members and items unchanged and in order, at every      *)
(* depth.                                                                  *)
RECURSIVE Encodes(_, _)
Encodes(json, value) ==
    IF value.variant = "Simple"
    THEN /\ DOMAIN json = {"simple"}
         /\ json.simple = [type |-> value.simple.typ, text |-> value.simple.text,
                           isNil |-> value.simple.nil]
    ELSE IF value.variant = "Components"
         THEN /\ DOMAIN json = {"components"}
              /\ Len(json.components) = Len(value.components)
              /\ \A i \in DOMAIN value.components :
                    /\ json.components[i].name = value.components[i].name
                    /\ json.components[i].isNil = value.components[i].nil
                    /\ Len(json.components[i].value) = Len(value.components[i].value)
                    /\ value.components[i].value /= <<>>
                          => Encodes(json.components[i].value[1], value.components[i].value[1])
         ELSE /\ DOMAIN json = {"list"}
              /\ json.list.isNil = value.list.nil
              /\ Len(json.list.items) = Len(value.list.items)
              /\ \A i \in DOMAIN value.list.items :
                    Encodes(json.list.items[i], value.list.items[i])

(* C19: the JSON of a value has, at every depth, exactly the key of the    *)
(* value's variant, with type, text, isNil, names and the order of members *)
(* and items unchanged; the wire object has exactly one of its three       *)
(* fields set; an input node keeps its name, and has no value object when  *)
(* it has no value.                                                        *)
C19_OneKeyPerVariant ==
    dpc \in {"encoded", "read"}
        => /\ Encodes(wa[1], dva)
           /\ Encodes(wb[1], dvb)
           /\ Cardinality({k \in {"simple", "components", "list"} :
                              ValueDtoFrom(dva)[k] /= <<>>}) = 1
           /\ win[1].name = din.name
           /\ din.value = <<>> => win[1].value = <<>>
           /\ din.value /= <<>>
                 => /\ Len(win[1].value) = 1
                    /\ Encodes(win[1].value[1], din.value[1])

(* C19 witness: a composite with a member that holds a list has been       *)
(* encoded under the key components, next to an input node without value. *)
C19_Witness ==
    /\ dpc = "encoded"
    /\ dva.variant = "Components" /\ dva.components /= <<>>
    /\ dva.components[1].value /= <<>> /\ dva.components[1].value[1].variant = "List"
    /\ DOMAIN wa[1] = {"components"}
    /\ DOMAIN wa[1].components[1].value[1] = {"list"}
    /\ din.value = <<>> /\ win[1].value = <<>>

----------------------------------------------------------------------------
(* Properties of the batch *)

FixtureErrors ==
    {"ValidatingXMLFailed", "ParsingXMLFailed", "XmlExpectedMandatoryNode",
     "XmlExpectedMandatoryAttribute", "XmlExpectedMandatoryTextContent"}

(* C20: the run never ends on the validation or parse failure of a fixture *)
(* while fixtures of the sorted list remain to be processed.               *)
C20_FailureDoesNotAbort ==
    ~ /\ pc = "failed"
      /\ mainErr /= <<>>
      /\ mainErr[1].kind \in FixtureErrors
      /\ fileIdx < Len(files)

----------------------------------------------------------------------------
(* Properties of the computed value of a result node *)

(* The resultNode element a parsed result node was read from *)
ResultElem(doc, t, r) == TagChildren(TagChildren(doc.root, "testCase")[t], "resultNode")[r]

(* C21 as stated: no result node of a parsed TestCases value has a         *)
(* computed value.                                                         *)
C21_ComputedAbsentAfterParsing ==
    suite /= <<>>
        => \A t \in DOMAIN suite[1].test_cases :
              \A r \in DOMAIN suite[1].test_cases[t].result_nodes :
                 suite[1].test_cases[t].result_nodes[r].computed = <<>>

(* C21 amended: the computed value of a parsed result node is absent when  *)
(* the resultNode element has no computed child, and is the value of its   *)
(* first computed child otherwise; the evaluations made afterwards leave   *)
(* the TestCases value, and with it every computed value, as parsed.       *)
C21_ComputedFromFixtureOnly ==
    suite /= <<>>
        => /\ \A t \in DOMAIN suite[1].test_cases :
                 \A r \in DOMAIN suite[1].test_cases[t].result_nodes :
                    LET computed == suite[1].test_cases[t].result_nodes[r].computed
                        el == ResultElem(files[fileIdx].content, t, r)
                    IN /\ ~HasChild(el, "computed") => computed = <<>>
                       /\ computed /= <<>> => HasChild(el, "computed")
                       /\ (HasChild(el, "computed") /\ HasChild(FirstChild(el, "computed"), "value"))
                             => /\ computed /= <<>>
                                /\ computed[1].variant = "Simple"
                                /\ computed[1].simple.text
                                      = NodeText(FirstChild(FirstChild(el, "computed"), "value"))
                       /\ (HasChild(el, "computed") /\ FirstChild(el, "computed").children = <<>>)
                             => computed = <<>>
           /\ \A i \in DOMAIN evals :
                 evals[i].file = fileIdx
                    => evals[i].result_node
                         = suite[1].test_cases[evals[i].at[1]].result_nodes[evals[i].at[2]]

(* C21 witness: a result node parsed with a computed value has been        *)
(* evaluated, the engine returned another value, and the computed value is *)
(* still the one of the fixture.                                           *)
C21_Witness ==
    /\ suite /= <<>>
    /\ evals /= <<>>
    /\ evals[1].file = fileIdx
    /\ evals[1].response.kind = "Reply"
    /\ suite[1].test_cases[1].result_nodes /= <<>>
    /\ suite[1].test_cases[1].result_nodes[1].computed /= <<>>
    /\ suite[1].test_cases[1].result_nodes[1].computed[1].simple.text = <<"1.0">>
    /\ suite[1].test_cases[1].result_nodes[1].computed[1].simple.typ = <<"xsd:string">>

----------------------------------------------------------------------------
(* Properties of the optional children with text *)

(* The first child with the tag is there and does not begin with text *)
ChildWithoutText(node, tag) ==
    /\ HasChild(node, tag)
    /\ \/ FirstChild(node, tag).children = <<>>
       \/ FirstChild(node, tag).children[1].kind /= "text"

DescriptionWithoutText(root) ==
    \E i \in DOMAIN root.children :
        /\ root.children[i].tag = "testCase"
        /\ ChildWithoutText(root.children[i], "description")

(* C22: a document without a modelName child parses with no model name and *)
(* a test case without a description child parses with no description; a   *)
(* document whose modelName child, or the description child of one of its  *)
(* test cases, has no text does not parse: the result is the error         *)
(* XmlExpectedMandatoryTextContent.                                        *)
C22_PresentChildRequiresText ==
    (ppc = "parsed" /\ RightRoot)
        => /\ (pres.ok /\ ~HasChild(pdoc.root, "modelName")) => pres.v.model_name = <<>>
           /\ pres.ok
                 => \A t \in DOMAIN pres.v.test_cases :
                       ~HasChild(TagChildren(pdoc.root, "testCase")[t], "description")
                          => pres.v.test_cases[t].description = <<>>
           /\ (ChildWithoutText(pdoc.root, "modelName") \/ DescriptionWithoutText(pdoc.root))
                 => /\ ~pres.ok
                    /\ pres.e.kind = "XmlExpectedMandatoryTextContent"

----------------------------------------------------------------------------
(* Properties of the items of a list *)

(* The node resolves to a value shape: it has a value child, a component   *)
(* child, or a list child that carries the nil marker or has an item that  *)
(* resolves to a value shape.                                              *)
RECURSIVE Shaped(_)
Shaped(node) ==
    \/ HasChild(node, "value")
    \/ HasChild(node, "component")
    \/ /\ HasChild(node, "list")
       /\ \/ NilMarked(FirstChild(node, "list"))
          \/ \E i \in DOMAIN FirstChild(node, "list").children :
                /\ FirstChild(node, "list").children[i].tag = "item"
                /\ Shaped(FirstChild(node, "list").children[i])

ItemsOf(node) == TagChildren(FirstChild(node, "list"), "item")
ShapedItemsOf(node) == SelectSeq(ItemsOf(node), LAMBDA n : Shaped(n))

(* C23: a node whose shape is decided by a list child without the nil      *)
(* marker parses to a list with one entry for each item that resolves to a *)
(* value shape, in document order, the entry being the value the item      *)
(* resolves to; the items that resolve to no shape hold no position; and   *)
(* when no item resolves to a shape the node parses to no value.           *)
C23_ValuelessItemsOmitted ==
    (vpc = "parsed" /\ ListDecides(vnode) /\ ~NilMarked(FirstChild(vnode, "list")))
        => /\ vres.ok
           /\ ShapedItemsOf(vnode) = <<>> => vres.v = <<>>
           /\ ShapedItemsOf(vnode) /= <<>>
                 => /\ vres.v /= <<>>
                    /\ vres.v[1].variant = "List"
                    /\ ~vres.v[1].list.nil
                    /\ Len(vres.v[1].list.items) = Len(ShapedItemsOf(vnode))
                    /\ Len(vres.v[1].list.items) <= Len(ItemsOf(vnode))
                    /\ \A i \in DOMAIN vres.v[1].list.items :
                          parse_value_type(ShapedItemsOf(vnode)[i])
                             = [ok |-> TRUE, v |-> <<vres.v[1].list.items[i]>>]
           /\ \A i \in DOMAIN ItemsOf(vnode) :
                 Shaped(ItemsOf(vnode)[i]) <=> parse_value_type(ItemsOf(vnode)[i]).v /= <<>>

(* C23 witness: a list of an item without content and an item with a      *)
(* value has parsed to a list of one entry, the value of the second item.  *)
C23_Witness ==
    /\ vpc = "parsed" /\ ListDecides(vnode)
    /\ FirstChild(vnode, "list") = ListHollow
    /\ Len(ItemsOf(vnode)) = 2
    /\ ~Shaped(ItemsOf(vnode)[1])
    /\ vres.ok /\ vres.v /= <<>>
    /\ Len(vres.v[1].list.items) = 1
    /\ vres.v[1].list.items[1].simple.text = <<"1.00">>

----------------------------------------------------------------------------
(* Properties of the requests, the report lines and the counters *)

(* The result nodes of a document in document order, each named by the     *)
(* position of its testCase element and its position in it.                *)
RECURSIVE DocWorkFrom(_, _, _)
DocWorkFrom(tcs, t, r) ==
    IF t > Len(tcs) THEN <<>>
    ELSE IF r > Len(TagChildren(tcs[t], "resultNode")) THEN DocWorkFrom(tcs, t + 1, 1)
         ELSE <<<<t, r>>>> \o DocWorkFrom(tcs, t, r + 1)

DocWork(doc) == DocWorkFrom(TagChildren(doc.root, "testCase"), 1, 1)

EvalsOf(f) == SelectSeq(evals, LAMBDA e : e.file = f)

LinesWith(results) == Cardinality({i \in DOMAIN report : report[i].result \in results})

(* The requests of each file are made for its result nodes, one each, in   *)
(* document order, all of them once the file is done.                      *)
RequestsInDocumentOrder ==
    /\ \A i, j \in DOMAIN evals : i <= j => evals[i].file <= evals[j].file
    /\ \A f \in DOMAIN files :
          (f < fileIdx \/ EvalsOf(f) /= <<>>)
             => /\ Len(EvalsOf(f)) <= Len(DocWork(files[f].content))
                /\ f < fileIdx => Len(EvalsOf(f)) = Len(DocWork(files[f].content))
                /\ \A k \in DOMAIN EvalsOf(f) :
                      /\ EvalsOf(f)[k].at = DocWork(files[f].content)[k]
                      /\ <<EvalsOf(f)[k].result_node.name>>
                            = AttrOf(ResultElem(files[f].content,
                                                EvalsOf(f)[k].at[1], EvalsOf(f)[k].at[2]), "name")

(* The i-th line is the line of the i-th request *)
LinesFollowRequests ==
    /\ Len(report) <= Len(evals)
    /\ \A i \in DOMAIN report :
          /\ report[i].file = files[evals[i].file].name
          /\ report[i].test_id
                = (IF AttrOf(TagChildren(files[evals[i].file].content.root, "testCase")[evals[i].at[1]],
                             "id") = <<>>
                   THEN ""
                   ELSE AttrOf(TagChildren(files[evals[i].file].content.root,
                                           "testCase")[evals[i].at[1]], "id")[1])

(* Each line has raised exactly one counter, the one of its result *)
CountersMatchLines ==
    /\ successCount = LinesWith({"SUCCESS"})
    /\ failureCount = LinesWith({"FAILURE"})
    /\ otherCount = Len(report) - LinesWith({"SUCCESS", "FAILURE"})
    /\ successCount + failureCount + otherCount = Len(report)

(* Under STOP_ON_FAILURE a failure line is the last line and ends the run *)
StopsAtFirstFailure ==
    stopOnFailure
        => /\ \A i \in DOMAIN report : report[i].result = "FAILURE" => i = Len(report)
           /\ (report /= <<>> /\ report[Len(report)].result = "FAILURE") => pc = "exited"
           /\ failureCount <= 1

(* C24 as stated: every request has its report line, so that the counters  *)
(* add up to the number of requests made.                                  *)
C24_OneLinePerRequest ==
    /\ RequestsInDocumentOrder
    /\ LinesFollowRequests
    /\ CountersMatchLines
    /\ StopsAtFirstFailure
    /\ Len(report) = Len(evals)
    /\ successCount + failureCount + otherCount = Len(evals)

(* C24 amended: the requests of a parsed file are made for its result      *)
(* nodes, one each, in document order; every request has its report line,  *)
(* except the last one when writing its line failed and the run panicked;  *)
(* each line has raised exactly one counter, so the counters add up to the *)
(* number of lines; and under STOP_ON_FAILURE nothing follows the first    *)
(* failure line.                                                           *)
C24_OneLinePerRequestUnlessPanic ==
    /\ RequestsInDocumentOrder
    /\ LinesFollowRequests
    /\ CountersMatchLines
    /\ StopsAtFirstFailure
    /\ pc /= "panicked" => Len(report) = Len(evals)
    /\ Len(evals) \in {Len(report), Len(report) + 1}
    /\ Len(evals) = Len(report) + 1 => pc = "panicked"

(* C24 witness: a run without STOP_ON_FAILURE has finished two files with  *)
(* three result nodes, with a success and a failure among the lines.       *)
C24_Witness ==
    /\ pc = "done" /\ ~stopOnFailure
    /\ Len(files) = 2
    /\ Len(report) = 3 /\ Len(evals) = 3
    /\ evals[2].file = 1 /\ evals[3].file = 2
    /\ successCount >= 1 /\ failureCount >= 1

====
